---- MODULE Spec2Model ----
(***************************************************************************)
(* Command interpretation and dialogue-state engines of the voice/text     *)
(* task manager: SmartTaskAssistant, SmartCommandProcessor,                *)
(* HybridTaskProcessor, ExactVoiceProcessor / ExactTaskService,            *)
(* VoiceCommandProcessor and CommandInput, over the StorageService store.  *)
(*                                                                         *)
(* Text.  A string is a sequence of words, a word is a sequence of         *)
(* one-character strings; the string is its words joined by single blanks  *)
(* (Chars); the empty word is the place between two blanks, so that a      *)
(* string that ends with the empty word ends with a blank.  The vocabulary *)
(* keeps a quote character only as the first or the last character of a    *)
(* word, and the command keywords (add, task, delete, mark, ...) only as   *)
(* whole words, so that the regular expressions of the source can be       *)
(* matched word by word.                                                   *)
(***************************************************************************)
EXTENDS Integers, Sequences, FiniteSets, TLC

\* ------------------------------------------------------------------ bounds
\* most tasks the store holds (add commands are not taken beyond it)
MaxTasks == 3
\* most task ids ever handed out by StorageService.addTask
MaxId == 3

\* -------------------------------------------------------------- vocabulary
W_add == <<"a","d","d">>
W_task == <<"t","a","s","k">>
W_delete == <<"d","e","l","e","t","e">>
W_the == <<"t","h","e">>
W_mark == <<"m","a","r","k">>
W_complete == <<"c","o","m","p","l","e","t","e">>
W_change == <<"c","h","a","n","g","e">>
W_to == <<"t","o">>
W_as == <<"a","s">>
W_done == <<"d","o","n","e">>
W_yes == <<"y","e","s">>
W_no == <<"n","o">>
W_maybe == <<"m","a","y","b","e">>
W_Buy == <<"B","u","y">>
W_buy == <<"b","u","y">>
W_groceries == <<"g","r","o","c","e","r","i","e","s">>
W_milk == <<"m","i","l","k">>
W_Meeting == <<"M","e","e","t","i","n","g">>
W_meeting == <<"m","e","e","t","i","n","g">>
W_items == <<"i","t","e","m","s">>
W_with == <<"w","i","t","h">>
W_Arjun == <<"A","r","j","u","n">>
W_Team == <<"T","e","a","m">>
W_prep == <<"p","r","e","p">>
W_1 == <<"1">>
W_2 == <<"2">>
W_3 == <<"3">>
\* quoted words: 'meeting'  'Buy  groceries'
W_qmeetingq == <<"'","m","e","e","t","i","n","g","'">>
W_qBuy == <<"'","B","u","y">>
W_qprepq == <<"'","p","r","e","p","'">>
W_groceriesq == <<"g","r","o","c","e","r","i","e","s","'">>

\* titles
T_BuyGroceries == <<W_Buy, W_groceries>>
T_BuyMilk == <<W_Buy, W_milk>>
T_MeetingWithArjun == <<W_Meeting, W_with, W_Arjun>>
T_TeamMeetingPrep == <<W_Team, W_meeting, W_prep>>

\* utterances
U_empty == <<>>
U_addBuyMilk == <<W_add, W_task, W_Buy, W_milk>>
U_addMeeting == <<W_add, W_meeting>>
\* "add task " with a blank at its end
U_addTaskBlank == <<W_add, W_task, <<>>>>
U_deleteBuyGroceries == <<W_delete, W_Buy, W_groceries>>
U_deleteTheMeetingTask == <<W_delete, W_the, W_meeting, W_task>>
U_deleteMeeting == <<W_delete, W_meeting>>
U_deleteItems == <<W_delete, W_items>>
U_completeMeeting == <<W_complete, W_meeting>>
U_markBuyGroceries == <<W_mark, W_Buy, W_groceries, W_as, W_done>>
U_changeMeeting == <<W_change, W_qmeetingq, W_to, W_Buy, W_milk>>
U_changeBuyGroceries == <<W_change, W_qBuy, W_groceriesq, W_to, W_Buy, W_milk>>
U_yes == <<W_yes>>
U_no == <<W_no>>
U_maybe == <<W_maybe>>
U_1 == <<W_1>>
U_2 == <<W_2>>
U_3 == <<W_3>>
U_Arjun == <<W_Arjun>>
U_meeting == <<W_meeting>>

Utterances ==
  { U_empty, U_addMeeting, U_addTaskBlank, U_deleteBuyGroceries, U_deleteTheMeetingTask,
    U_deleteMeeting, U_completeMeeting, U_changeMeeting, U_yes, U_no,
    U_maybe, U_1, U_2, U_3, U_Arjun, U_meeting }

\* ------------------------------------------------------- string primitives
\* String.prototype.toLowerCase, on the letters of the vocabulary
LowerChar(c) ==
  CASE c = "A" -> "a" [] c = "B" -> "b" [] c = "M" -> "m" [] c = "T" -> "t"
    [] OTHER -> c

LowerWord(w) == [i \in 1..Len(w) |-> LowerChar(w[i])]

toLowerCase(s) == [i \in 1..Len(s) |-> LowerWord(s[i])]

\* String.prototype.trim
RECURSIVE trim(_)
trim(s) ==
  IF s = <<>> THEN s
  ELSE IF Head(s) = <<>> THEN trim(Tail(s))
  ELSE IF s[Len(s)] = <<>> THEN trim(SubSeq(s, 1, Len(s) - 1))
  ELSE s

\* the characters of a string: its words joined by one blank
RECURSIVE Chars(_)
Chars(s) ==
  IF s = <<>> THEN <<>>
  ELSE IF Len(s) = 1 THEN s[1]
  ELSE s[1] \o <<" ">> \o Chars(Tail(s))

\* String.prototype.includes on character sequences
CharsInclude(hay, needle) ==
  \E i \in 0..(Len(hay) - Len(needle)) :
     SubSeq(hay, i + 1, i + Len(needle)) = needle

includes(s, t) == CharsInclude(Chars(s), Chars(t))

\* String.prototype.split(" "): the empty string splits into one empty word
split(s) == IF s = <<>> THEN << <<>> >> ELSE s

Digits == {"0","1","2","3","4","5","6","7","8","9"}

DigitVal(c) ==
  CASE c = "0" -> 0 [] c = "1" -> 1 [] c = "2" -> 2 [] c = "3" -> 3
    [] c = "4" -> 4 [] c = "5" -> 5 [] c = "6" -> 6 [] c = "7" -> 7
    [] c = "8" -> 8 [] c = "9" -> 9

\* parseInt of a digit string
RECURSIVE parseInt(_)
parseInt(ds) ==
  IF ds = <<>> THEN 0
  ELSE 10 * parseInt(SubSeq(ds, 1, Len(ds) - 1)) + DigitVal(ds[Len(ds)])

\* input.match(/(\d+)/): the leftmost maximal run of digits, <<>> when none
FirstDigits(cs) ==
  IF \A i \in 1..Len(cs) : cs[i] \notin Digits THEN <<>>
  ELSE LET a == CHOOSE i \in 1..Len(cs) :
                  /\ cs[i] \in Digits
                  /\ \A j \in 1..(i - 1) : cs[j] \notin Digits
           b == CHOOSE i \in a..Len(cs) :
                  /\ \A j \in a..i : cs[j] \in Digits
                  /\ (i = Len(cs) \/ cs[i + 1] \notin Digits)
       IN SubSeq(cs, a, b)

IsQuote(c) == c \in {"'", "\""}
StartsQ(w) == Len(w) > 0 /\ IsQuote(w[1])
EndsQ(w) == Len(w) > 0 /\ IsQuote(w[Len(w)])

\* ------------------------------------------------------------------- state
VARIABLES
  store,                 \* StorageService: the task list kept in localStorage
  nextId,                \* ids handed out so far + 1 (ids are never reused)
  pendingConfirmation,   \* SmartTaskAssistant.pendingConfirmation
  pendingDisambiguation, \* SmartTaskAssistant.pendingDisambiguation
  smartConfirmation,     \* SmartCommandProcessor.pendingConfirmation
  hybridConfirmation,    \* HybridTaskProcessor.pendingConfirmation
  exactConfirmation,     \* ExactVoiceProcessor.pendingConfirmation
  engine,                \* the command path the session's calls go through
  input,                 \* the utterance of the last call
  result,                \* the response returned by the last call
  promises,              \* processCommand promises nobody has awaited yet
  voice                  \* VoiceService: its fields and its recognizer

vars == <<store, nextId, pendingConfirmation, pendingDisambiguation, smartConfirmation, hybridConfirmation, exactConfirmation, engine, input, result, promises, voice>>

\* VoiceService and the SpeechRecognition object it owns. recognizer is the
\* browser's side: "none" (no SpeechRecognition in this browser), "idle",
\* "starting" (start() called, start event not fired yet), "running",
\* "stopping" (stop() called, end event not fired yet), "failed" (error event
\* fired, end event not fired yet). options is the startListening call whose
\* callbacks are installed (0: the {} of construction), session the call
\* whose recognition.start() went through and has not ended, calls the number
\* of startListening calls so far, returned what the last of them returned.
VoiceState(recognizer, isListening, options, session, calls, returned) ==
  [recognizer |-> recognizer, isListening |-> isListening, options |-> options,
   session |-> session, calls |-> calls, returned |-> returned]

\* VoiceService after its constructor, in a browser with SpeechRecognition
IdleVoice == VoiceState("idle", FALSE, 0, 0, 0, "none")

\* ----------------------------------------------------------- StorageService
\* a Task record of the store (dueDate and description are not modelled)
Task(id, title, status, priority, tags) ==
  [id |-> id, title |-> title, status |-> status, priority |-> priority,
   tags |-> tags]

\* StorageService.getTaskById(...) !== null
HasTask(tasks, taskId) == \E i \in 1..Len(tasks) : tasks[i].id = taskId

getTaskById(tasks, taskId) ==
  tasks[CHOOSE i \in 1..Len(tasks) :
          /\ tasks[i].id = taskId
          /\ \A j \in 1..(i - 1) : tasks[j].id # taskId]

\* StorageService.addTask: the new task is put at the beginning
addTask(tasks, task) == <<task>> \o tasks

\* faulty variant of updateTaskTitle: the updated task is stored as a fresh
\* pending task
updateTaskTitleReopened(tasks, taskId, title) ==
  IF ~HasTask(tasks, taskId) THEN tasks
  ELSE LET index == CHOOSE i \in 1..Len(tasks) :
                      /\ tasks[i].id = taskId
                      /\ \A j \in 1..(i - 1) : tasks[j].id # taskId
       IN [tasks EXCEPT ![index].title = title, ![index].status = "pending"]

\* faulty variant of updateTaskTitle: the update goes to the first task of
\* the list
updateTaskTitleAtHead(tasks, taskId, title) ==
  IF ~HasTask(tasks, taskId) THEN tasks
  ELSE [tasks EXCEPT ![1].title = title]

\* StorageService.updateTask(taskId, {title}): the list after the call
updateTaskTitle(tasks, taskId, title) ==
  IF ~HasTask(tasks, taskId) THEN tasks
  ELSE LET index == CHOOSE i \in 1..Len(tasks) :
                      /\ tasks[i].id = taskId
                      /\ \A j \in 1..(i - 1) : tasks[j].id # taskId
       IN [tasks EXCEPT ![index].title = title]

\* StorageService.updateTaskStatus(taskId, status): the list after the call
updateTaskStatus(tasks, taskId, status) ==
  IF ~HasTask(tasks, taskId) THEN tasks
  ELSE LET index == CHOOSE i \in 1..Len(tasks) :
                      /\ tasks[i].id = taskId
                      /\ \A j \in 1..(i - 1) : tasks[j].id # taskId
       IN [tasks EXCEPT ![index].status = status]

\* tasks.filter(pred) for "task.id !== taskId"
RECURSIVE FilterOutId(_, _)
FilterOutId(tasks, taskId) ==
  IF tasks = <<>> THEN <<>>
  ELSE IF Head(tasks).id = taskId THEN FilterOutId(Tail(tasks), taskId)
  ELSE <<Head(tasks)>> \o FilterOutId(Tail(tasks), taskId)

\* faulty variant of deleteTask: the filter keeps the task it should drop
deleteTaskInverted(tasks, taskId) ==
  IF HasTask(tasks, taskId) THEN <<getTaskById(tasks, taskId)>> ELSE tasks

\* faulty variant of deleteTask: the task at the head of the list is removed
\* when the id is stored
deleteTaskAtHead(tasks, taskId) ==
  IF HasTask(tasks, taskId) THEN Tail(tasks) ELSE tasks

\* StorageService.deleteTask: the list after the call
deleteTask(tasks, taskId) == FilterOutId(tasks, taskId)

\* StorageService.getTasksByStatus
RECURSIVE getTasksByStatus(_, _)
getTasksByStatus(tasks, status) ==
  IF tasks = <<>> THEN <<>>
  ELSE IF Head(tasks).status = status
       THEN <<Head(tasks)>> \o getTasksByStatus(Tail(tasks), status)
  ELSE getTasksByStatus(Tail(tasks), status)

Range(f) == {f[i] : i \in DOMAIN f}

Ids(tasks) == [i \in 1..Len(tasks) |-> tasks[i].id]

\* ------------------------------------- keywords of the patterns and lexemes
W_create == <<"c","r","e","a","t","e">>
W_new == <<"n","e","w">>
W_a == <<"a">>
W_remind == <<"r","e","m","i","n","d">>
W_me == <<"m","e">>
W_need == <<"n","e","e","d">>
W_i == <<"i">>
W_hey == <<"h","e","y">>
W_finish == <<"f","i","n","i","s","h">>
W_finished == <<"f","i","n","i","s","h","e","d">>
W_remove == <<"r","e","m","o","v","e">>
W_cancel == <<"c","a","n","c","e","l">>
W_from == <<"f","r","o","m">>
W_list == <<"l","i","s","t">>
W_update == <<"u","p","d","a","t","e">>
W_edit == <<"e","d","i","t">>
W_modify == <<"m","o","d","i","f","y">>
W_and == <<"a","n","d">>
W_is == <<"i","s">>
W_y == <<"y">>
W_n == <<"n">>
W_yeah == <<"y","e","a","h">>
W_yep == <<"y","e","p">>
W_sure == <<"s","u","r","e">>
W_ok == <<"o","k">>
W_okay == <<"o","k","a","y">>
W_confirm == <<"c","o","n","f","i","r","m">>
W_do == <<"d","o">>
W_it == <<"i","t">>
W_nope == <<"n","o","p","e">>
W_stop == <<"s","t","o","p">>
W_nevermind == <<"n","e","v","e","r","m","i","n","d">>
W_never == <<"n","e","v","e","r">>
W_mind == <<"m","i","n","d">>

\* the word at position i, the empty word outside the string
At(s, i) == IF i \in 1..Len(s) THEN s[i] ELSE <<>>

\* the smallest element of a non-empty set of positions
Leftmost(S) == CHOOSE i \in S : \A j \in S : i <= j

\* the words after position i
After(s, i) == SubSeq(s, i + 1, Len(s))

\* \w+ on the characters of the vocabulary (letters and digits)
IsWordChars(w) == w # <<>> /\ \A i \in 1..Len(w) : ~IsQuote(w[i])

HasPrefix(w, p) == Len(w) >= Len(p) /\ SubSeq(w, 1, Len(p)) = p

\* ['"]([^'"]+)['"] with the opening quote at the start of word j: the word
\* that holds the closing quote, 0 when the quotation is not closed
QuoteClose(s, j) ==
  LET C == {m \in j..Len(s) : EndsQ(s[m]) /\ (m > j \/ Len(s[m]) >= 3)}
  IN IF StartsQ(At(s, j)) /\ C # {} THEN Leftmost(C) ELSE 0

\* the text between the quotes of words j..k
QuoteText(s, j, k) ==
  LET seg == SubSeq(s, j, k)
      noOpen == [seg EXCEPT ![1] = Tail(seg[1])]
      last == noOpen[Len(noOpen)]
  IN [noOpen EXCEPT ![Len(noOpen)] = SubSeq(last, 1, Len(last) - 1)]

\* position after "keyword (the )?(task )?" for a keyword at position i
AfterTheTask(L, i) ==
  LET j1 == IF At(L, i + 1) = W_the THEN i + 2 ELSE i + 1
  IN IF At(L, j1) = W_task THEN j1 + 1 ELSE j1

\* the result of String.prototype.match: <<>> (null) or the captured groups
NoMatch == <<>>

\* ---------------------------------------- SmartTaskAssistant.detectIntent
\* /(?:add|create|new)\s+(?:a\s+)?task:?\s*(.+)/i
AddPattern1(s) ==
  LET L == toLowerCase(s)
      TaskAt(i) == IF At(L, i + 1) = W_a /\ At(L, i + 2) = W_task
                   THEN i + 2 ELSE i + 1
      S == {i \in 1..Len(s) :
              /\ L[i] \in {W_add, W_create, W_new}
              /\ At(L, TaskAt(i)) = W_task
              /\ TaskAt(i) < Len(s)}
  IN IF S = {} THEN NoMatch ELSE <<After(s, TaskAt(Leftmost(S)))>>

\* /(?:remind\s+me\s+to|i\s+need\s+to)\s+(.+)/i
AddPattern2(s) ==
  LET L == toLowerCase(s)
      S == {i \in 1..Len(s) :
              /\ \/ L[i] = W_remind /\ At(L, i + 1) = W_me
                 \/ L[i] = W_i /\ At(L, i + 1) = W_need
              /\ At(L, i + 2) = W_to
              /\ i + 2 < Len(s)}
  IN IF S = {} THEN NoMatch ELSE <<After(s, Leftmost(S) + 2)>>

\* /(?:hey\s+\w+,?\s*)?(?:add|create)\s+(.+)/i
AddPattern3(s) ==
  LET L == toLowerCase(s)
      Hey(i) == /\ L[i] = W_hey
                /\ IsWordChars(At(L, i + 1))
                /\ At(L, i + 2) \in {W_add, W_create}
                /\ i + 2 < Len(s)
      Plain(i) == L[i] \in {W_add, W_create} /\ i < Len(s)
      S == {i \in 1..Len(s) : Hey(i) \/ Plain(i)}
  IN IF S = {} THEN NoMatch
     ELSE LET i == Leftmost(S)
          IN <<After(s, IF Hey(i) THEN i + 2 ELSE i)>>

\* /task:?\s*(.+)/i
AddPattern4(s) ==
  LET L == toLowerCase(s)
      S == {i \in 1..Len(s) : L[i] = W_task /\ i < Len(s)}
  IN IF S = {} THEN NoMatch ELSE <<After(s, Leftmost(S))>>

\* /(?:kw)\s+(?:the\s+)?(?:task\s+)?['"]([^'"]+)['"]( ...)?/i, the shape of
\* completePatterns[0] and deletePatterns[0]
QuotedAfterKeyword(s, keywords) ==
  LET L == toLowerCase(s)
      S == {i \in 1..Len(s) :
              /\ L[i] \in keywords
              /\ QuoteClose(s, AfterTheTask(L, i)) # 0}
  IN IF S = {} THEN NoMatch
     ELSE LET j == AfterTheTask(L, Leftmost(S))
          IN <<QuoteText(s, j, QuoteClose(s, j))>>

CompletePattern1(s) ==
  QuotedAfterKeyword(s, {W_mark, W_complete, W_finish, W_done})

\* /(?:task\s+)?['"]([^'"]+)['"](?:\s+is\s+)?(?:complete|done|finished)/i
CompletePattern2(s) ==
  LET L == toLowerCase(s)
      S == {j \in 1..Len(s) :
              /\ QuoteClose(s, j) # 0
              /\ At(L, QuoteClose(s, j) + 1) = W_is
              /\ \E kw \in {W_complete, W_done, W_finished} :
                    HasPrefix(At(L, QuoteClose(s, j) + 2), kw)}
  IN IF S = {} THEN NoMatch
     ELSE LET j == Leftmost(S) IN <<QuoteText(s, j, QuoteClose(s, j))>>

\* /(?:mark|complete|finish)\s+(.+?)(?:\s+as\s+(?:done|complete|finished))?$/i
CompletePattern3(s) ==
  LET L == toLowerCase(s)
      S == {i \in 1..Len(s) :
              L[i] \in {W_mark, W_complete, W_finish} /\ i < Len(s)}
  IN IF S = {} THEN NoMatch
     ELSE LET rest == After(s, Leftmost(S))
              n == Len(rest)
              lrest == toLowerCase(rest)
          IN IF /\ n >= 3
                /\ lrest[n - 1] = W_as
                /\ lrest[n] \in {W_done, W_complete, W_finished}
             THEN <<SubSeq(rest, 1, n - 2)>>
             ELSE <<rest>>

DeletePattern1(s) == QuotedAfterKeyword(s, {W_delete, W_remove, W_cancel})

\* /(?:remove|delete)\s+(.+?)(?:\s+from\s+(?:the\s+)?list)?$/i
DeletePattern2(s) ==
  LET L == toLowerCase(s)
      S == {i \in 1..Len(s) : L[i] \in {W_remove, W_delete} /\ i < Len(s)}
  IN IF S = {} THEN NoMatch
     ELSE LET rest == After(s, Leftmost(S))
              n == Len(rest)
              lrest == toLowerCase(rest)
          IN IF n >= 3 /\ lrest[n - 1] = W_from /\ lrest[n] = W_list
             THEN <<SubSeq(rest, 1, n - 2)>>
             ELSE IF /\ n >= 4
                     /\ lrest[n - 2] = W_from
                     /\ lrest[n - 1] = W_the
                     /\ lrest[n] = W_list
             THEN <<SubSeq(rest, 1, n - 3)>>
             ELSE <<rest>>

\* /(?:change|update|edit|modify)\s+(?:the\s+)?(?:task\s+)?['"]([^'"]+)['"](?:\s+to\s+)?(.+)/i
ModifyPattern1(s) ==
  LET L == toLowerCase(s)
      S == {i \in 1..Len(s) :
              /\ L[i] \in {W_change, W_update, W_edit, W_modify}
              /\ QuoteClose(s, AfterTheTask(L, i)) # 0
              /\ QuoteClose(s, AfterTheTask(L, i)) < Len(s)}
  IN IF S = {} THEN NoMatch
     ELSE LET j == AfterTheTask(L, Leftmost(S))
              k == QuoteClose(s, j)
          IN << QuoteText(s, j, k),
                IF At(L, k + 1) = W_to /\ k + 1 < Len(s)
                THEN After(s, k + 1) ELSE After(s, k) >>

\* /(?:update|edit)\s+['"]([^'"]+)['"](?:\s+and\s+add\s+)?(.+)/i
ModifyPattern2(s) ==
  LET L == toLowerCase(s)
      S == {i \in 1..Len(s) :
              /\ L[i] \in {W_update, W_edit}
              /\ QuoteClose(s, i + 1) # 0
              /\ QuoteClose(s, i + 1) < Len(s)}
  IN IF S = {} THEN NoMatch
     ELSE LET k == QuoteClose(s, Leftmost(S) + 1)
          IN << QuoteText(s, Leftmost(S) + 1, k),
                IF At(L, k + 1) = W_and /\ At(L, k + 2) = W_add /\ k + 2 < Len(s)
                THEN After(s, k + 2) ELSE After(s, k) >>

\* the first pattern of a list that matches: for (const pattern of patterns)
RECURSIVE FirstMatch(_)
FirstMatch(ms) ==
  IF ms = <<>> THEN NoMatch
  ELSE IF Head(ms) # NoMatch THEN Head(ms) ELSE FirstMatch(Tail(ms))

Intent(type, content, taskName, newContent) ==
  [type |-> type, content |-> content, taskName |-> taskName,
   newContent |-> newContent]

detectIntent(s) ==
  LET First(add, complete, delete, modify) ==
        IF add # NoMatch THEN Intent("add", trim(add[1]), <<>>, <<>>)
        ELSE IF complete # NoMatch
        THEN Intent("complete", <<>>, trim(complete[1]), <<>>)
        ELSE IF delete # NoMatch
        THEN Intent("delete", <<>>, trim(delete[1]), <<>>)
        ELSE IF modify # NoMatch
        THEN Intent("modify", <<>>, trim(modify[1]), trim(modify[2]))
        ELSE Intent("unknown", <<>>, <<>>, <<>>)
  IN First(FirstMatch(<<AddPattern1(s), AddPattern2(s), AddPattern3(s),
                        AddPattern4(s)>>),
           FirstMatch(<<CompletePattern1(s), CompletePattern2(s),
                        CompletePattern3(s)>>),
           FirstMatch(<<DeletePattern1(s), DeletePattern2(s)>>),
           FirstMatch(<<ModifyPattern1(s), ModifyPattern2(s)>>))

W_urgent == <<"u","r","g","e","n","t">>
W_asap == <<"a","s","a","p">>
W_immediately == <<"i","m","m","e","d","i","a","t","e","l","y">>
W_critical == <<"c","r","i","t","i","c","a","l">>
W_important == <<"i","m","p","o","r","t","a","n","t">>
W_high == <<"h","i","g","h">>
W_priority == <<"p","r","i","o","r","i","t","y">>
W_low == <<"l","o","w">>
W_later == <<"l","a","t","e","r">>
W_someday == <<"s","o","m","e","d","a","y">>
W_call == <<"c","a","l","l">>
W_phone == <<"p","h","o","n","e">>
W_contact == <<"c","o","n","t","a","c","t">>
W_purchase == <<"p","u","r","c","h","a","s","e">>
W_shopping == <<"s","h","o","p","p","i","n","g">>
W_meet == <<"m","e","e","t">>
W_email == <<"e","m","a","i","l">>
W_send == <<"s","e","n","d">>
W_reply == <<"r","e","p","l","y">>
W_report == <<"r","e","p","o","r","t">>
W_document == <<"d","o","c","u","m","e","n","t">>
W_write == <<"w","r","i","t","e">>

\* a word without the quote characters around it
Bare(w) ==
  LET a == IF StartsQ(w) THEN Tail(w) ELSE w
  IN IF EndsQ(a) THEN SubSeq(a, 1, Len(a) - 1) ELSE a

\* /\b(k1|k2|...)\b/i.test(content)
HasKeyword(content, keywords) ==
  \E i \in 1..Len(content) : Bare(LowerWord(content[i])) \in keywords

\* SmartTaskAssistant.extractTaskMetadata: priority
metadataPriority(content) ==
  IF HasKeyword(content, {W_urgent, W_asap, W_immediately, W_critical})
  THEN "urgent"
  ELSE IF HasKeyword(content, {W_important, W_high, W_priority}) THEN "high"
  ELSE IF HasKeyword(content, {W_low, W_later, W_someday}) THEN "low"
  ELSE "medium"

\* SmartTaskAssistant.extractTaskMetadata: tags
metadataTags(content) ==
  (IF HasKeyword(content, {W_call, W_phone, W_contact}) THEN <<"call">> ELSE <<>>)
  \o (IF HasKeyword(content, {W_buy, W_purchase, W_shopping})
      THEN <<"shopping">> ELSE <<>>)
  \o (IF HasKeyword(content, {W_meeting, W_meet}) THEN <<"meeting">> ELSE <<>>)
  \o (IF HasKeyword(content, {W_email, W_send, W_reply}) THEN <<"email">> ELSE <<>>)
  \o (IF HasKeyword(content, {W_report, W_document, W_write})
      THEN <<"document">> ELSE <<>>)

\* ------------------------------- SmartTaskAssistant.calculateSimilarity
\* A similarity is the fraction n/d together with the branch that produced
\* it; the branch decides how the double compares with the threshold 0.3.
Sim(kind, n, d) == [kind |-> kind, n |-> n, d |-> d]

Max(a, b) == IF a >= b THEN a ELSE b

calculateSimilarity(str1, str2) ==
  LET words1 == split(str1)
      words2 == split(str2)
      intersection == {i \in 1..Len(words1) : words1[i] \in Range(words2)}
      union == Range(words1) \cup Range(words2)
      c1 == Chars(str1)
      c2 == Chars(str2)
      overlap == {i \in 1..Len(c1) : c1[i] \in Range(c2)}
  IN IF str1 = str2 THEN Sim("exact", 10, 10)
     ELSE IF includes(str2, str1) \/ includes(str1, str2)
     THEN Sim("contains", 8, 10)
     ELSE IF Cardinality(intersection) > 0
     THEN Sim("words", 6 * Cardinality(intersection), 10 * Cardinality(union))
     ELSE Sim("chars", 4 * Cardinality(overlap), 10 * Max(Len(c1), Len(c2)))

\* faulty variant of AboveThreshold: every similarity above 0 passes
AboveThresholdZero(sim) == sim.n > 0

\* similarity > 0.3 on doubles: (i/u)*0.6 is above 0.3 exactly when 2i > u,
\* while (o/m)*0.4 rounds to 0.30000000000000004 when o/m = 0.75
AboveThreshold(sim) ==
  \/ 10 * sim.n > 3 * sim.d
  \/ sim.kind = "chars" /\ 10 * sim.n = 3 * sim.d

\* SmartTaskAssistant.getMatchType
getMatchType(query, title) ==
  IF query = title THEN "exact"
  ELSE IF includes(title, query) \/ includes(query, title) THEN "partial"
  ELSE "fuzzy"

SimGreater(a, b) == a.n * b.d > b.n * a.d

\* suggestions.sort((a, b) => b.similarity - a.similarity): stable, highest first
RECURSIVE SortBySimilarity(_)
SortBySimilarity(sugg) ==
  IF sugg = <<>> THEN <<>>
  ELSE LET top == CHOOSE i \in 1..Len(sugg) :
                    /\ \A j \in 1..Len(sugg) :
                          ~SimGreater(sugg[j].similarity, sugg[i].similarity)
                    /\ \A j \in 1..(i - 1) :
                          SimGreater(sugg[i].similarity, sugg[j].similarity)
       IN <<sugg[top]>>
          \o SortBySimilarity(SubSeq(sugg, 1, top - 1)
                              \o SubSeq(sugg, top + 1, Len(sugg)))

\* the loop of findTaskSuggestions: the tasks above the threshold, in order
RECURSIVE Relevant(_, _)
Relevant(query, tasks) ==
  IF tasks = <<>> THEN <<>>
  ELSE LET task == Head(tasks)
           Suggestion(similarity) ==
             IF AboveThreshold(similarity)
             THEN << [task |-> task, similarity |-> similarity,
                      matchType |-> getMatchType(toLowerCase(query),
                                                 toLowerCase(task.title))] >>
             ELSE <<>>
       IN Suggestion(calculateSimilarity(toLowerCase(query),
                                         toLowerCase(task.title)))
          \o Relevant(query, Tail(tasks))

\* SmartTaskAssistant.findTaskSuggestions(query, candidates || getTasks())
findTaskSuggestions(query, tasks) == SortBySimilarity(Relevant(query, tasks))

SuggestedTasks(suggestions) ==
  [i \in 1..Len(suggestions) |-> suggestions[i].task]

\* ------------------------------------------------------ SmartTaskAssistant
\* PendingAction; type "none" stands for null, newContent <<>> for undefined
PendingAction(type, taskId, originalCommand, newContent) ==
  [type |-> type, taskId |-> taskId, originalCommand |-> originalCommand,
   newContent |-> newContent]

NoPendingAction == PendingAction("none", 0, <<>>, <<>>)

NoDisambiguation == [action |-> NoPendingAction, candidates |-> <<>>]

\* SmartAssistantResponse; message is the kind of sentence returned, action ""
\* and taskAffected 0 stand for absent fields
Response(success, message, action, requiresConfirmation, requiresDisambiguation, candidateTasks, taskAffected) ==
  [success |-> success, message |-> message, action |-> action,
   requiresConfirmation |-> requiresConfirmation,
   requiresDisambiguation |-> requiresDisambiguation,
   candidateTasks |-> candidateTasks, taskAffected |-> taskAffected]

Failure(message) == Response(FALSE, message, "", FALSE, FALSE, <<>>, 0)

NoResponse == Failure("")

\* what a call leaves behind: the store, the pending slots, the response
Outcome(tasks, id, confirmation, disambiguation, response) ==
  [store |-> tasks, nextId |-> id, pendingConfirmation |-> confirmation,
   pendingDisambiguation |-> disambiguation, result |-> response]

\* a call that changes nothing and returns response
Unchanged(response) ==
  Outcome(store, nextId, pendingConfirmation, pendingDisambiguation, response)

handleAddTask(content) ==
  LET newTask == Task(nextId, content, "pending", metadataPriority(content),
                      <<"voice">> \o metadataTags(content))
  IN Outcome(addTask(store, newTask), nextId + 1, pendingConfirmation,
             pendingDisambiguation,
             Response(TRUE, "added", "add", FALSE, FALSE, <<>>, newTask.id))

handleCompleteTask(taskName) ==
  LET Matched(suggestions) ==
        LET task == suggestions[1].task
        IN IF Len(suggestions) = 0 THEN Unchanged(Failure("not found"))
           ELSE IF Len(suggestions) = 1 /\ task.status = "completed"
           THEN Unchanged(Failure("already completed"))
           ELSE IF Len(suggestions) = 1 /\ HasTask(store, task.id)
           THEN Outcome(updateTaskStatus(store, task.id, "completed"), nextId,
                        pendingConfirmation, pendingDisambiguation,
                        Response(TRUE, "completed", "complete", FALSE, FALSE, <<>>,
                                 task.id))
           ELSE Unchanged(Response(FALSE, "which one", "", FALSE, TRUE,
                                   Ids(SuggestedTasks(suggestions)), 0))
  IN Matched(findTaskSuggestions(taskName, store))

handleDeleteTask(taskName) ==
  LET Matched(suggestions) ==
        LET task == suggestions[1].task
        IN IF Len(suggestions) = 0 THEN Unchanged(Failure("not found"))
           ELSE IF Len(suggestions) = 1
           THEN Outcome(store, nextId,
                        PendingAction("delete", task.id, taskName, <<>>),
                        pendingDisambiguation,
                        Response(FALSE, "confirm delete", "", TRUE, FALSE, <<>>,
                                 task.id))
           ELSE Outcome(store, nextId, pendingConfirmation,
                        [action |-> PendingAction("delete", 0, taskName, <<>>),
                         candidates |-> suggestions],
                        Response(FALSE, "which one", "", FALSE, TRUE,
                                 Ids(SuggestedTasks(suggestions)), 0))
  IN Matched(findTaskSuggestions(taskName, store))

handleModifyTask(taskName, newContent) ==
  LET Matched(suggestions) ==
        LET task == suggestions[1].task
        IN IF Len(suggestions) = 0 THEN Unchanged(Failure("not found"))
           ELSE IF Len(suggestions) = 1
           THEN Outcome(store, nextId,
                        PendingAction("modify", task.id, taskName, newContent),
                        pendingDisambiguation,
                        Response(FALSE, "confirm modify", "", TRUE, FALSE, <<>>,
                                 task.id))
           ELSE Outcome(store, nextId, pendingConfirmation,
                        [action |-> PendingAction("modify", 0, taskName, newContent),
                         candidates |-> suggestions],
                        Response(FALSE, "which one", "", FALSE, TRUE,
                                 Ids(SuggestedTasks(suggestions)), 0))
  IN Matched(findTaskSuggestions(taskName, store))

parseAndExecuteCommand(s) ==
  LET Execute(intent) ==
        CASE intent.type = "add" -> handleAddTask(intent.content)
          [] intent.type = "complete" -> handleCompleteTask(intent.taskName)
          [] intent.type = "delete" -> handleDeleteTask(intent.taskName)
          [] intent.type = "modify" ->
               handleModifyTask(intent.taskName, intent.newContent)
          [] OTHER -> Unchanged(Failure("not understood"))
  IN Execute(detectIntent(s))

\* /^(yes|y|yeah|yep|sure|ok|okay|confirm|do it)$/i
isYes(s) ==
  toLowerCase(s) \in {<<W_yes>>, <<W_y>>, <<W_yeah>>, <<W_yep>>, <<W_sure>>,
                      <<W_ok>>, <<W_okay>>, <<W_confirm>>, <<W_do, W_it>>}

\* /^(no|n|nope|cancel|stop|nevermind|never mind)$/i
isNo(s) ==
  toLowerCase(s) \in {<<W_no>>, <<W_n>>, <<W_nope>>, <<W_cancel>>, <<W_stop>>,
                      <<W_nevermind>>, <<W_never, W_mind>>}

\* faulty variant of handleConfirmationResponse: an affirmative reply leaves the
\* slot as it was (as if it were cleared only after the awaited store call)
handleConfirmationResponseKeepingSlot(s) ==
  LET confirmation == pendingConfirmation
      reprompt == Response(FALSE, "say yes or no", "", TRUE, FALSE, <<>>, 0)
      Cleared(tasks, response) ==
        Outcome(tasks, nextId, NoPendingAction, pendingDisambiguation, response)
      Kept(tasks, response) ==
        Outcome(tasks, nextId, confirmation, pendingDisambiguation, response)
  IN IF confirmation.type = "none"
     THEN Cleared(store, Failure("nothing to confirm"))
     ELSE IF isYes(s)
     THEN IF confirmation.type = "delete"
          THEN IF HasTask(store, confirmation.taskId)
               THEN Kept(deleteTask(store, confirmation.taskId),
                         Response(TRUE, "deleted", "delete", FALSE, FALSE,
                                  <<>>, 0))
               ELSE Kept(store, reprompt)
          ELSE IF confirmation.type = "modify" /\ confirmation.newContent # <<>>
          THEN IF HasTask(store, confirmation.taskId)
               THEN Kept(updateTaskTitle(store, confirmation.taskId,
                                         confirmation.newContent),
                         Response(TRUE, "modified", "modify", FALSE, FALSE,
                                  <<>>, 0))
               ELSE Kept(store, reprompt)
          ELSE Kept(store, reprompt)
     ELSE IF isNo(s)
     THEN Cleared(store, Response(TRUE, "cancelled", "", FALSE, FALSE, <<>>, 0))
     ELSE Cleared(store, reprompt)

\* the slot is cleared on entry and no branch sets it again
handleConfirmationResponse(s) ==
  LET confirmation == pendingConfirmation
      reprompt == Response(FALSE, "say yes or no", "", TRUE, FALSE, <<>>, 0)
      Cleared(tasks, response) ==
        Outcome(tasks, nextId, NoPendingAction, pendingDisambiguation, response)
  IN IF confirmation.type = "none"
     THEN Cleared(store, Failure("nothing to confirm"))
     ELSE IF isYes(s)
     THEN IF confirmation.type = "delete"
          THEN IF HasTask(store, confirmation.taskId)
               THEN Cleared(deleteTask(store, confirmation.taskId),
                            Response(TRUE, "deleted", "delete", FALSE, FALSE,
                                     <<>>, 0))
               ELSE Cleared(store, reprompt)
          ELSE IF confirmation.type = "modify" /\ confirmation.newContent # <<>>
          THEN IF HasTask(store, confirmation.taskId)
               THEN Cleared(updateTaskTitle(store, confirmation.taskId,
                                            confirmation.newContent),
                            Response(TRUE, "modified", "modify", FALSE, FALSE,
                                     <<>>, 0))
               ELSE Cleared(store, reprompt)
          ELSE Cleared(store, reprompt)
     ELSE IF isNo(s)
     THEN Cleared(store, Response(TRUE, "cancelled", "", FALSE, FALSE, <<>>, 0))
     ELSE Cleared(store, reprompt)

\* faulty variant of CandidateIndex: the number is taken as a 0-based index
CandidateIndexFromZero(numberMatch) == parseInt(numberMatch)

\* parseInt(numberMatch[1]) - 1
CandidateIndex(numberMatch) == parseInt(numberMatch) - 1

\* the slot is cleared on entry; a selection for delete or modify moves the
\* action, with the selected id, into pendingConfirmation
handleDisambiguationResponse(s) ==
  LET disambiguation == pendingDisambiguation
      candidates == disambiguation.candidates
      numberMatch == FirstDigits(Chars(s))
      index == CandidateIndex(numberMatch)
      suggestions == findTaskSuggestions(s, SuggestedTasks(candidates))
      Selected(task) ==
        Outcome(store, nextId,
                [disambiguation.action EXCEPT !.taskId = task.id],
                NoDisambiguation,
                Response(FALSE,
                         IF disambiguation.action.type = "delete"
                         THEN "confirm delete" ELSE "confirm modify",
                         "", TRUE, FALSE, <<>>, task.id))
      notUnderstood ==
        Outcome(store, nextId, pendingConfirmation, NoDisambiguation,
                Failure("which task"))
  IN IF disambiguation.action.type = "none"
     THEN Outcome(store, nextId, pendingConfirmation, NoDisambiguation,
                  Failure("nothing to choose"))
     ELSE IF /\ numberMatch # <<>>
             /\ index >= 0 /\ index < Len(candidates)
             /\ disambiguation.action.type \in {"delete", "modify"}
     THEN Selected(candidates[index + 1].task)
     ELSE IF Len(suggestions) = 1 /\ disambiguation.action.type = "delete"
     THEN Selected(suggestions[1].task)
     ELSE notUnderstood

\* faulty variant of processCommand: every utterance is parsed as a new
\* command, whatever is pending
processCommandUnrouted(s) == parseAndExecuteCommand(s)

\* SmartTaskAssistant.processCommand
processCommand(s) ==
  LET cleanInput == trim(toLowerCase(s))
  IN IF pendingConfirmation.type # "none"
     THEN handleConfirmationResponse(cleanInput)
     ELSE IF pendingDisambiguation.action.type # "none"
     THEN handleDisambiguationResponse(cleanInput)
     ELSE parseAndExecuteCommand(s)

\* ---------------------------------------------------- text with blanks kept
\* A word removed by String.prototype.replace leaves its blanks behind: the
\* empty word stands for the place between two blanks.
W_please == <<"p","l","e","a","s","e">>
W_an == <<"a","n">>
W_can == <<"c","a","n">>
W_could == <<"c","o","u","l","d">>
W_you == <<"y","o","u">>
W_tasks == <<"t","a","s","k","s">>
W_number == <<"n","u","m","b","e","r">>
W_this == <<"t","h","i","s">>
W_that == <<"t","h","a","t">>
W_first == <<"f","i","r","s","t">>
W_second == <<"s","e","c","o","n","d">>
W_third == <<"t","h","i","r","d">>
W_fourth == <<"f","o","u","r","t","h">>
W_fifth == <<"f","i","f","t","h">>
W_sixth == <<"s","i","x","t","h">>
W_seventh == <<"s","e","v","e","n","t","h">>
W_eighth == <<"e","i","g","h","t","h">>
W_ninth == <<"n","i","n","t","h">>
W_tenth == <<"t","e","n","t","h">>

NonEmpty(w) == w # <<>>

\* .replace(/\s+/g, " ").trim()
Squeeze(s) == SelectSeq(s, NonEmpty)

\* the quote characters around a word, which \b leaves in place
Residue(w) ==
  LET a == IF StartsQ(w) THEN Tail(w) ELSE w
  IN (IF StartsQ(w) THEN <<w[1]>> ELSE <<>>)
       \o (IF EndsQ(a) THEN <<a[Len(a)]>> ELSE <<>>)

\* .replace(/\b(k1|k2|...)\b/gi, "")
RemoveWords(s, keywords) ==
  [i \in 1..Len(s) |->
     IF Bare(LowerWord(s[i])) \in keywords THEN Residue(s[i]) ELSE s[i]]

\* /\b(k1|k2|...)\b/.test(s)
HasWord(s, keywords) == \E i \in 1..Len(s) : Bare(s[i]) \in keywords

\* the text has no character
IsEmpty(s) == Chars(s) = <<>>

\* null, where a task is looked up
NoTask == Task(0, <<>>, "none", "none", <<>>)

\* Array.prototype.find over the positions S that satisfy the test
FirstTask(tasks, S) == IF S = {} THEN NoTask ELSE tasks[Leftmost(S)]

\* --------------------------------------------------- VoiceCommandProcessor
ParsedCommand(action, targetType, target) ==
  [action |-> action, targetType |-> targetType, target |-> target]

\* /^\d+(st|nd|rd|th)?$/ on a word: (\d+)(st|nd|rd|th)? between two \b
IsNumberWord(w) ==
  LET digits == FirstDigits(w)
  IN /\ digits # <<>>
     /\ HasPrefix(w, digits)
     /\ SubSeq(w, Len(digits) + 1, Len(w))
          \in {<<>>, <<"s","t">>, <<"n","d">>, <<"r","d">>, <<"t","h">>}

\* faulty variant of wordToNumber: the table stops after its first entry
wordToNumberFirstOnly == <<W_first>>

wordToNumber ==
  <<W_first, W_second, W_third, W_fourth, W_fifth, W_sixth, W_seventh,
    W_eighth, W_ninth, W_tenth>>

\* VoiceCommandProcessor.parseCommand
parseCommand(command) ==
  LET normalized == toLowerCase(command)
      InCanYou(i) ==
        \/ normalized[i] \in {W_can, W_could} /\ At(normalized, i + 1) = W_you
        \/ /\ normalized[i] = W_you
           /\ At(normalized, i - 1) \in {W_can, W_could}
      noCanYou == [i \in 1..Len(normalized) |->
                     IF InCanYou(i) THEN <<>> ELSE normalized[i]]
      cleanCommand ==
        Squeeze(RemoveWords(noCanYou, {W_please, W_the, W_a, W_an}))
      action ==
        IF HasWord(cleanCommand, {W_mark, W_complete, W_finish, W_done})
        THEN "mark"
        ELSE IF HasWord(cleanCommand, {W_delete, W_remove, W_cancel})
        THEN "delete"
        ELSE IF HasWord(cleanCommand, {W_add, W_create, W_new}) THEN "add"
        ELSE "unknown"
      remainingText ==
        CASE action = "mark" ->
               trim(RemoveWords(cleanCommand,
                      {W_mark, W_complete, W_finish, W_done, W_as, W_task,
                       W_tasks}))
          [] action = "delete" ->
               trim(RemoveWords(cleanCommand,
                      {W_delete, W_remove, W_cancel, W_task, W_tasks}))
          [] action = "add" ->
               trim(RemoveWords(cleanCommand,
                      {W_add, W_create, W_new, W_task, W_tasks}))
          [] OTHER -> cleanCommand
      numbers == {i \in 1..Len(remainingText) :
                    IsNumberWord(Bare(remainingText[i]))}
      ordinals == {i \in 1..Len(remainingText) :
                     Bare(remainingText[i]) \in Range(wordToNumber)}
      ordinal == Bare(remainingText[Leftmost(ordinals)])
  IN IF action \notin {"mark", "delete"}
     THEN ParsedCommand(action, "none", <<>>)
     ELSE IF numbers # {}
     THEN ParsedCommand(action, "number",
            parseInt(FirstDigits(remainingText[Leftmost(numbers)])))
     ELSE IF ordinals # {}
     THEN ParsedCommand(action, "number",
            CHOOSE n \in 1..Len(wordToNumber) : wordToNumber[n] = ordinal)
     ELSE IF ~IsEmpty(remainingText)
     THEN ParsedCommand(action, "name",
            trim(RemoveWords(remainingText,
                   {W_task, W_number, W_this, W_that})))
     ELSE ParsedCommand(action, "generic", <<>>)

\* VoiceCommandProcessor.findTaskByNumber
findTaskByNumber(tasks, taskNumber) ==
  LET index == taskNumber - 1
  IN IF index >= 0 /\ index < Len(tasks) THEN tasks[index + 1] ELSE NoTask

\* the words of a search term longer than two characters
LongWords(s) == SelectSeq(split(s), LAMBDA w : Len(w) > 2)

\* VoiceCommandProcessor.findTaskByName
findTaskByName(tasks, taskName) ==
  LET searchTerm == toLowerCase(taskName)
      Title(i) == toLowerCase(tasks[i].title)
      exact == {i \in 1..Len(tasks) : Chars(Title(i)) = Chars(searchTerm)}
      partial == {i \in 1..Len(tasks) : includes(Title(i), searchTerm)}
      searchWords == LongWords(searchTerm)
      byWord == {i \in 1..Len(tasks) :
                   \E k \in 1..Len(searchWords) :
                      CharsInclude(Chars(Title(i)), searchWords[k])}
  IN IF Len(Chars(taskName)) < 2 THEN NoTask
     ELSE IF exact # {} THEN FirstTask(tasks, exact)
     ELSE IF partial # {} THEN FirstTask(tasks, partial)
     ELSE FirstTask(tasks, byWord)

\* what a call of a processor leaves behind: the store, the processor's
\* pending confirmation (when it has one), the result
Effect(tasks, id, confirmation, response) ==
  [store |-> tasks, nextId |-> id, confirmation |-> confirmation,
   result |-> response]

\* {taskId, taskTitle, action} of the processors; the title is only quoted in
\* messages; action "none" stands for null
Confirmation(taskId, action) == [taskId |-> taskId, action |-> action]

NoConfirmation == Confirmation(0, "none")

\* a result with success, message, action and taskAffected only
Result(success, message, action, taskAffected) ==
  Response(success, message, action, FALSE, FALSE, <<>>, taskAffected)

\* the task selected by targetType and target, NoTask when there is none
TargetTask(targetType, target, generic) ==
  CASE targetType = "number" -> findTaskByNumber(store, target)
    [] targetType = "name" -> findTaskByName(store, target)
    [] targetType = "generic" -> IF generic = <<>> THEN NoTask ELSE generic[1]
    [] OTHER -> NoTask

\* the sentence executeMarkCommand returns when it has no task to mark; of
\* the count in "You have ${getTasks().length} tasks" the model keeps whether
\* it is 0
MarkNotFound(targetType) ==
  CASE targetType = "number" ->
         IF Len(store) = 0 THEN "no task of that number, you have 0 tasks"
         ELSE "no task of that number, you have tasks"
    [] targetType = "name" -> "no task of that name"
    [] OTHER -> "no pending tasks"

\* faulty variant of executeMarkCommand: the status of the task is not looked
\* at and the task is marked once more
executeMarkCommandAgain(targetType, target) ==
  LET taskToMark ==
        TargetTask(targetType, target, getTasksByStatus(store, "pending"))
  IN IF taskToMark = NoTask
     THEN Effect(store, nextId, NoConfirmation, Failure("not found"))
     ELSE Effect(updateTaskStatus(store, taskToMark.id, "completed"), nextId,
                 NoConfirmation,
                 Result(TRUE, "completed", "mark", taskToMark.id))

\* VoiceCommandProcessor.executeMarkCommand
executeMarkCommand(targetType, target) ==
  LET taskToMark ==
        TargetTask(targetType, target, getTasksByStatus(store, "pending"))
      Fail(message) ==
        Effect(store, nextId, NoConfirmation, Failure(message))
  IN IF targetType \notin {"number", "name", "generic"}
     THEN Fail("specify task")
     ELSE IF taskToMark = NoTask THEN Fail(MarkNotFound(targetType))
     ELSE IF taskToMark.status = "completed" THEN Fail("already completed")
     ELSE Effect(updateTaskStatus(store, taskToMark.id, "completed"), nextId,
                 NoConfirmation,
                 Result(TRUE, "completed", "mark", taskToMark.id))

\* VoiceCommandProcessor.executeDeleteCommand: the task is deleted at once
executeDeleteCommand(targetType, target) ==
  LET taskToDelete == TargetTask(targetType, target, store)
      Fail(message) ==
        Effect(store, nextId, NoConfirmation, Failure(message))
  IN IF targetType \notin {"number", "name", "generic"}
     THEN Fail("specify task")
     ELSE IF taskToDelete = NoTask THEN Fail("not found")
     ELSE Effect(deleteTask(store, taskToDelete.id), nextId, NoConfirmation,
                 Result(TRUE, "deleted", "delete", taskToDelete.id))

\* VoiceCommandProcessor.executeAddCommand; parseCommand leaves the target of
\* an add undefined, taskTitle <<>> here
executeAddCommand(taskTitle) ==
  IF IsEmpty(taskTitle)
  THEN Effect(store, nextId, NoConfirmation, Failure("what task"))
  ELSE LET newTask == Task(nextId, trim(taskTitle), "pending", "medium",
                           <<"voice">>)
       IN Effect(addTask(store, newTask), nextId + 1, NoConfirmation,
                 Result(TRUE, "added", "add", newTask.id))

\* VoiceCommandProcessor.executeCommand
executeCommand(parsedCommand) ==
  CASE parsedCommand.action = "mark" ->
         executeMarkCommand(parsedCommand.targetType, parsedCommand.target)
    [] parsedCommand.action = "delete" ->
         executeDeleteCommand(parsedCommand.targetType, parsedCommand.target)
    [] parsedCommand.action = "add" -> executeAddCommand(parsedCommand.target)
    [] OTHER -> Effect(store, nextId, NoConfirmation,
                       Failure("not understood"))

\* VoiceCommandProcessor.processVoiceCommand
processVoiceCommand(command) ==
  IF IsEmpty(trim(command))
  THEN Effect(store, nextId, NoConfirmation, Failure("nothing heard"))
  ELSE executeCommand(parseCommand(command))

\* ------------------------------------------- GeminiService and CommandInput
W_schedule == <<"s","c","h","e","d","u","l","e">>
W_reminder == <<"r","e","m","i","n","d","e","r">>
W_note == <<"n","o","t","e">>
W_New == <<"N","e","w">>

TaskCommand(type, title, priority) ==
  [type |-> type, title |-> title, priority |-> priority]

\* lower.includes(k1) || lower.includes(k2) || ...
IncludesAny(lower, keywords) ==
  \E k \in keywords : CharsInclude(Chars(lower), k)

\* faulty variant of fallbackParse: a title with nothing left stays empty
fallbackParseNoDefault(transcript) ==
  TaskCommand("task",
              Squeeze(RemoveWords(transcript,
                                  {W_add, W_task, W_remind, W_me, W_to,
                                   W_schedule, W_meeting, W_with})),
              "medium")

\* GeminiService.fallbackParse
fallbackParse(transcript) ==
  LET lower == toLowerCase(transcript)
      type ==
        IF IncludesAny(lower, {W_remind, W_reminder}) THEN "reminder"
        ELSE IF IncludesAny(lower, {W_meeting, W_meet}) THEN "meeting"
        ELSE IF IncludesAny(lower, {W_note}) THEN "note"
        ELSE IF IncludesAny(lower, {W_complete, W_done, W_finish})
        THEN "complete"
        ELSE IF IncludesAny(lower, {W_delete, W_remove}) THEN "delete"
        ELSE "task"
      priority ==
        IF IncludesAny(lower, {W_urgent, W_asap, W_immediately}) THEN "urgent"
        ELSE IF IncludesAny(lower, {W_important, W_high}) THEN "high"
        ELSE IF IncludesAny(lower, {W_low, W_later}) THEN "low"
        ELSE "medium"
      removeWords == {W_add, W_task, W_remind, W_me, W_to, W_schedule,
                      W_meeting, W_with}
      title == Squeeze(RemoveWords(transcript, removeWords))
  IN TaskCommand(type, IF IsEmpty(title) THEN <<W_New, W_task>> ELSE title,
                 priority)

\* the types of the JSON object the model is asked for
TaskCommandTypes ==
  {"task", "meeting", "reminder", "note", "complete", "delete", "unknown"}

\* GeminiService.parseVoiceCommand: the commands the call can return.  The
\* request goes to a remote language model; its answer is any of the types
\* with a title, and when the request fails the fallback parse is returned.
parseVoiceCommand(transcript) ==
  {fallbackParse(transcript)}
    \cup {TaskCommand(type, fallbackParse(transcript).title, "medium") :
            type \in TaskCommandTypes}

\* CommandInput.processCommand, once parseVoiceCommand has returned command;
\* the function returns nothing
processCommandInput(command) ==
  LET pendingTasks == getTasksByStatus(store, "pending")
      newTask == Task(nextId, command.title, "pending", command.priority,
                      <<command.type>>)
  IN CASE command.type \in {"task", "reminder", "meeting", "note"} ->
            Effect(addTask(store, newTask), nextId + 1, NoConfirmation,
                   NoResponse)
       [] command.type = "complete" ->
            IF pendingTasks # <<>>
            THEN Effect(updateTaskStatus(store, pendingTasks[1].id,
                                         "completed"),
                        nextId, NoConfirmation, NoResponse)
            ELSE Effect(store, nextId, NoConfirmation, NoResponse)
       [] command.type = "delete" ->
            IF store # <<>>
            THEN Effect(deleteTask(store, store[1].id), nextId,
                        NoConfirmation, NoResponse)
            ELSE Effect(store, nextId, NoConfirmation, NoResponse)
       [] OTHER -> Effect(store, nextId, NoConfirmation, NoResponse)

\* ---------------------------------------------------- SmartCommandProcessor
W_make == <<"m","a","k","e">>
W_check == <<"c","h","e","c","k">>
W_tick == <<"t","i","c","k">>
W_clear == <<"c","l","e","a","r">>
W_erase == <<"e","r","a","s","e">>
W_drop == <<"d","r","o","p">>
W_alter == <<"a","l","t","e","r">>
W_revise == <<"r","e","v","i","s","e">>
W_fix == <<"f","i","x">>
W_show == <<"s","h","o","w">>
W_display == <<"d","i","s","p","l","a","y">>
W_view == <<"v","i","e","w">>
W_see == <<"s","e","e">>
W_completed == <<"c","o","m","p","l","e","t","e","d">>
W_get == <<"g","e","t">>
W_rid == <<"r","i","d">>
W_of == <<"o","f">>
W_take == <<"t","a","k","e">>
W_away == <<"a","w","a","y">>
W_what == <<"w","h","a","t">>
W_forget == <<"f","o","r","g","e","t">>
W_don_t == <<"d","o","n","'","t">>
W_dont == <<"d","o","n","t">>
W_for == <<"f","o","r">>
W_thanks == <<"t","h","a","n","k","s">>
W_thank == <<"t","h","a","n","k">>
W_abort == <<"a","b","o","r","t">>
W_wait == <<"w","a","i","t">>
W_back == <<"b","a","c","k">>
W_negative == <<"n","e","g","a","t","i","v","e">>
W_yup == <<"y","u","p">>
W_go == <<"g","o">>
W_ahead == <<"a","h","e","a","d">>
W_proceed == <<"p","r","o","c","e","e","d">>
W_right == <<"r","i","g","h","t">>
W_correct == <<"c","o","r","r","e","c","t">>
W_affirmative == <<"a","f","f","i","r","m","a","t","i","v","e">>
W_yesComma == <<"y","e","s",",">>
W_noComma == <<"n","o",",">>

\* actionKeywords, in the order of Object.entries; weight in hundredths
actionKeywords ==
  << [action |-> "add", weight |-> 100,
      primary |-> {W_add, W_create, W_new, W_make},
      secondary |-> {W_remind, W_note, W_task},
      phrases |-> {Chars(<<W_remind, W_me, W_to>>),
                   Chars(<<W_i, W_need, W_to>>),
                   Chars(<<W_don_t, W_forget, W_to>>)}],
     [action |-> "complete", weight |-> 90,
      primary |-> {W_mark, W_complete, W_finish, W_done},
      secondary |-> {W_check, W_tick, W_finished},
      phrases |-> {Chars(<<W_mark, W_as, W_done>>), Chars(<<W_is, W_done>>),
                   W_completed}],
     [action |-> "delete", weight |-> 80,
      primary |-> {W_delete, W_remove, W_cancel},
      secondary |-> {W_clear, W_erase, W_drop},
      phrases |-> {Chars(<<W_get, W_rid, W_of>>), Chars(<<W_take, W_away>>)}],
     [action |-> "modify", weight |-> 70,
      primary |-> {W_edit, W_change, W_update, W_modify},
      secondary |-> {W_alter, W_revise, W_fix},
      phrases |-> {Chars(<<W_change, W_to>>), Chars(<<W_update, W_to>>)}],
     [action |-> "list", weight |-> 60,
      primary |-> {W_list, W_show, W_display},
      secondary |-> {W_view, W_see},
      phrases |-> {Chars(<<W_what, W_tasks>>), Chars(<<W_show, W_me>>)}] >>

\* the number of keywords with lower.includes(keyword)
Found(lower, keywords) ==
  Cardinality({k \in keywords : CharsInclude(lower, k)})

\* the confidence of one action, in thousandths: weight * 0.6 for a primary
\* keyword, weight * 0.3 for a secondary one, weight * 0.8 for a phrase.  With
\* at most two keywords found per action the sums compare in floating point
\* as they do exactly.
Confidence(lower, config) ==
  config.weight * (6 * Found(lower, config.primary)
                   + 3 * Found(lower, config.secondary)
                   + 8 * Found(lower, config.phrases))

ParsedIntent(action, content) == [action |-> action, content |-> content]

\* "^(?:w1|w2)\s+" at the head of a pattern: the first word and a blank
HeadWord(s, ws) == Len(s) >= 2 /\ LowerWord(s[1]) \in ws

\* "(?:w1\s+|w2\s+)?": the word and the blanks after it, when they are there
SkipWord(s, ws) == IF HeadWord(s, ws) THEN Tail(s) ELSE s

\* \d+ between two blanks
AllDigits(w) == w # <<>> /\ \A i \in 1..Len(w) : w[i] \in Digits

\* "(?:number\s+\d+\s+)?"
SkipNumber(s) ==
  IF Len(s) >= 3 /\ LowerWord(s[1]) = W_number /\ AllDigits(s[2])
  THEN SubSeq(s, 3, Len(s)) ELSE s

\* "(?:done|complete|finished)?" and the trim: the characters are taken from
\* the start of the first word
SkipPrefix(s, ps) ==
  IF s # <<>> /\ \E p \in ps : HasPrefix(LowerWord(s[1]), p)
  THEN LET p == CHOOSE q \in ps : HasPrefix(LowerWord(s[1]), q)
           rest == SubSeq(s[1], Len(p) + 1, Len(s[1]))
       IN IF rest = <<>> THEN Tail(s) ELSE <<rest>> \o Tail(s)
  ELSE s

\* the words of a character sequence, an empty word between two blanks
RECURSIVE Words(_)
Words(cs) ==
  IF \A i \in 1..Len(cs) : cs[i] # " " THEN <<cs>>
  ELSE LET b == Leftmost({i \in 1..Len(cs) : cs[i] = " "})
       IN <<SubSeq(cs, 1, b - 1)>> \o Words(SubSeq(cs, b + 1, Len(cs)))

\* content.match(/["']([^"']+)["']/): the quoted text, <<>> when none
QuotedMatch(content) ==
  LET cs == Chars(content)
      NextQuote(i) == {k \in (i + 2)..Len(cs) : IsQuote(cs[k])}
      opens == {i \in 1..(Len(cs) - 2) :
                  IsQuote(cs[i]) /\ ~IsQuote(cs[i + 1]) /\ NextQuote(i) # {}}
  IN IF opens = {} THEN NoMatch
     ELSE LET i == Leftmost(opens)
          IN Words(SubSeq(cs, i + 1, Leftmost(NextQuote(i)) - 1))

\* the six removePatterns of extractContent, each one replace and trim
RemovePattern(k, s) ==
  CASE k = 1 ->
         IF HeadWord(s, {W_add, W_create, W_new, W_make})
         THEN SkipWord(SkipWord(SkipWord(Tail(s), {W_a, W_the}), {W_task}),
                       {W_to, W_for})
         ELSE s
    [] k = 2 ->
         IF Len(s) >= 4 /\ toLowerCase(SubSeq(s, 1, 3))
                             \in {<<W_remind, W_me, W_to>>,
                                  <<W_i, W_need, W_to>>,
                                  <<W_don_t, W_forget, W_to>>}
         THEN SubSeq(s, 4, Len(s)) ELSE s
    [] k = 3 ->
         IF HeadWord(s, {W_mark, W_complete, W_finish})
         THEN SkipPrefix(SkipWord(SkipNumber(SkipWord(Tail(s), {W_task})),
                                  {W_as}),
                         {W_done, W_complete, W_finished})
         ELSE s
    [] k = 4 ->
         IF toLowerCase(SkipWord(SkipNumber(SkipWord(s, {W_task})), {W_is}))
              \in {<<W_done>>, <<W_complete>>, <<W_finished>>}
         THEN <<>> ELSE s
    [] k = 5 ->
         IF HeadWord(s, {W_delete, W_remove, W_cancel})
         THEN SkipNumber(SkipWord(Tail(s), {W_task}))
         ELSE s
    [] k = 6 ->
         IF HeadWord(s, {W_edit, W_change, W_update, W_modify})
         THEN SkipWord(SkipNumber(SkipWord(Tail(s), {W_task})), {W_to})
         ELSE s

\* content.replace(/\s+(?:please|thanks|thank you)$/i, "")
RemoveTrailing(s) ==
  LET n == Len(s)
  IN IF n >= 3 /\ toLowerCase(SubSeq(s, n - 1, n)) = <<W_thank, W_you>>
     THEN SubSeq(s, 1, n - 2)
     ELSE IF n >= 2 /\ LowerWord(s[n]) \in {W_please, W_thanks}
     THEN SubSeq(s, 1, n - 1)
     ELSE s

\* SmartCommandProcessor.extractContent; the action and the keywords passed
\* to it are not read
extractContent(inputText) ==
  LET Quoted(content, quotedMatch) ==
        trim(IF quotedMatch # NoMatch THEN quotedMatch ELSE content)
      Cleaned(content) == Quoted(content, QuotedMatch(content))
  IN Cleaned(RemoveTrailing(
       RemovePattern(6, RemovePattern(5, RemovePattern(4,
         RemovePattern(3, RemovePattern(2, RemovePattern(1, inputText))))))))

\* SmartCommandProcessor.parseIntentWithContext, without alternatives: the
\* first action of the highest confidence above 0
parseIntentWithContext(inputText) ==
  LET lower == Chars(toLowerCase(inputText))
      conf(k) == Confidence(lower, actionKeywords[k])
      best == {k \in 1..Len(actionKeywords) :
                 /\ conf(k) > 0
                 /\ \A j \in 1..Len(actionKeywords) : conf(j) <= conf(k)}
  IN ParsedIntent(IF best = {} THEN "unknown"
                  ELSE actionKeywords[Leftmost(best)].action,
                  extractContent(inputText))

\* the number of task titles reached, word by word
WordMatches(queryWords, title) ==
  Cardinality({k \in 1..Len(queryWords) :
                 CharsInclude(Chars(title), queryWords[k])})

\* .replace(/^(task|the task|a task)\s+/i, "").replace(/\s+(task)$/i, "")
CleanQuery(s) ==
  LET front == IF HeadWord(s, {W_task}) THEN Tail(s)
               ELSE IF Len(s) >= 3 /\ s[1] \in {W_the, W_a} /\ s[2] = W_task
               THEN SubSeq(s, 3, Len(s))
               ELSE s
  IN IF Len(front) >= 2 /\ front[Len(front)] = W_task
     THEN SubSeq(front, 1, Len(front) - 1) ELSE front

\* SmartCommandProcessor.findBestTaskMatch
findBestTaskMatch(query, tasks) ==
  LET queryLower == trim(toLowerCase(query))
      numberMatch == FirstDigits(Chars(queryLower))
      taskIndex == parseInt(numberMatch) - 1
      cleanQuery == trim(CleanQuery(queryLower))
      Title(i) == toLowerCase(tasks[i].title)
      exact == {i \in 1..Len(tasks) : Chars(Title(i)) = Chars(cleanQuery)}
      partial == {i \in 1..Len(tasks) : includes(Title(i), cleanQuery)}
      queryWords == LongWords(cleanQuery)
      Matches(i) == WordMatches(queryWords, Title(i))
      most == {i \in 1..Len(tasks) :
                 /\ Matches(i) > 0
                 /\ 2 * Matches(i) >= Len(queryWords)
                 /\ \A j \in 1..Len(tasks) : Matches(j) <= Matches(i)}
  IN IF IsEmpty(query) \/ tasks = <<>> THEN NoTask
     ELSE IF numberMatch # <<>> /\ taskIndex >= 0 /\ taskIndex < Len(tasks)
     THEN tasks[taskIndex + 1]
     ELSE IF exact # {} THEN FirstTask(tasks, exact)
     ELSE IF partial # {} THEN FirstTask(tasks, partial)
     ELSE FirstTask(tasks, most)

\* findBestTaskMatch of the earlier revision of the class: no task numbers,
\* any one word of the query is enough
findBestTaskMatchEarlier(query, tasks) ==
  LET queryLower == toLowerCase(query)
      Title(i) == toLowerCase(tasks[i].title)
      exact == {i \in 1..Len(tasks) : Chars(Title(i)) = Chars(queryLower)}
      partial == {i \in 1..Len(tasks) : includes(Title(i), queryLower)}
      queryWords == LongWords(queryLower)
      byWord == {i \in 1..Len(tasks) : WordMatches(queryWords, Title(i)) > 0}
  IN IF IsEmpty(query) \/ tasks = <<>> THEN NoTask
     ELSE IF exact # {} THEN FirstTask(tasks, exact)
     ELSE IF partial # {} THEN FirstTask(tasks, partial)
     ELSE FirstTask(tasks, byWord)

\* a result that asks for a confirmation of the task
AskConfirmation(message, taskId) ==
  Response(FALSE, message, "", TRUE, FALSE, <<>>, taskId)

\* SmartCommandProcessor.executeAddTask: the task is left to the caller
executeAddTask(intent) ==
  IF IsEmpty(intent.content)
  THEN Effect(store, nextId, smartConfirmation, Failure("what task"))
  ELSE Effect(store, nextId, smartConfirmation,
              Result(TRUE, "creating", "add", 0))

\* tasks.filter((t) => t.status !== "completed")
NotCompleted(tasks) == SelectSeq(tasks, LAMBDA t : t.status # "completed")

\* SmartCommandProcessor.executeCompleteTask; the sentence for no match ends
\* with the first three titles of tasks, of which the model keeps whether
\* there is any
executeCompleteTask(intent) ==
  LET tasks == NotCompleted(store)
      matchingTask == findBestTaskMatch(intent.content, tasks)
      Fail(message) ==
        Effect(store, nextId, smartConfirmation, Failure(message))
  IN IF IsEmpty(intent.content) THEN Fail("which task")
     ELSE IF matchingTask = NoTask
     THEN Fail(IF tasks = <<>> THEN "no match, no available tasks"
               ELSE "no match, available tasks listed")
     ELSE IF matchingTask.status = "completed"
     THEN Effect(store, nextId, smartConfirmation,
                 Result(FALSE, "already completed", "", matchingTask.id))
     ELSE Effect(store, nextId, Confirmation(matchingTask.id, "complete"),
                 AskConfirmation("confirm complete", matchingTask.id))

\* executeCompleteTask of the earlier revision: the task is completed at once
executeCompleteTaskEarlier(intent) ==
  LET matchingTask == findBestTaskMatchEarlier(intent.content, store)
      Fail(message) ==
        Effect(store, nextId, smartConfirmation, Failure(message))
  IN IF IsEmpty(intent.content) THEN Fail("which task")
     ELSE IF matchingTask = NoTask THEN Fail("not found")
     ELSE IF matchingTask.status = "completed"
     THEN Effect(store, nextId, smartConfirmation,
                 Result(FALSE, "already completed", "", matchingTask.id))
     ELSE Effect(updateTaskStatus(store, matchingTask.id, "completed"),
                 nextId, smartConfirmation,
                 Result(TRUE, "completed", "complete", matchingTask.id))

\* SmartCommandProcessor.executeDeleteTask, the same text in both revisions;
\* matchingTask is what this.findBestTaskMatch(intent.content, tasks) returns
executeDeleteTask(intent, matchingTask) ==
  IF IsEmpty(intent.content)
  THEN Effect(store, nextId, smartConfirmation, Failure("which task"))
  ELSE IF matchingTask = NoTask
  THEN Effect(store, nextId, smartConfirmation, Failure("not found"))
  ELSE Effect(store, nextId, Confirmation(matchingTask.id, "delete"),
              AskConfirmation("confirm delete", matchingTask.id))

\* SmartCommandProcessor.executeModifyTask
executeModifyTask(intent) ==
  Effect(store, nextId, smartConfirmation, Failure("coming soon"))

\* SmartCommandProcessor.executeListTasks; candidateTasks holds the ids of the
\* tasks of taskList, in the order in which the message numbers them
executeListTasks(intent) ==
  LET pendingTasks == NotCompleted(store)
      taskList == SubSeq(pendingTasks, 1,
                         IF Len(pendingTasks) < 5 THEN Len(pendingTasks) ELSE 5)
  IN Effect(store, nextId, smartConfirmation,
            IF Len(pendingTasks) = 0
            THEN Result(TRUE, "no pending tasks", "list", 0)
            ELSE Response(TRUE, "your tasks", "list", FALSE, FALSE,
                          Ids(taskList), 0))

\* SmartCommandProcessor.generateHelpResponse
generateHelpResponse(inputText) ==
  Effect(store, nextId, smartConfirmation, Failure("not understood"))

\* the test of a pattern "^w1\s+(p1|p2)": the first word and the start of
\* the second one
StartsWith(s, ws, ps) ==
  /\ Len(s) >= 2
  /\ s[1] \in ws
  /\ \E p \in ps : HasPrefix(s[2], p)

\* faulty variant of isAffirmativeResponse: (delete|complete|mark) it is
\* looked for anywhere in the reply, not at its start
isAffirmativeResponseAnywhere(response) ==
  \/ response \in {<<W_yes>>, <<W_y>>, <<W_yeah>>, <<W_yep>>, <<W_yup>>,
                   <<W_sure>>, <<W_ok>>, <<W_okay>>, <<W_confirm>>,
                   <<W_delete>>, <<W_do, W_it>>, <<W_go, W_ahead>>,
                   <<W_proceed>>, <<W_right>>, <<W_correct>>,
                   <<W_affirmative>>}
  \/ \E i \in 1..Len(response) :
        StartsWith(SubSeq(response, i, Len(response)),
                   {W_delete, W_complete, W_mark}, {W_it})

\* SmartCommandProcessor.isAffirmativeResponse
isAffirmativeResponse(response) ==
  \/ response \in {<<W_yes>>, <<W_y>>, <<W_yeah>>, <<W_yep>>, <<W_yup>>,
                   <<W_sure>>, <<W_ok>>, <<W_okay>>, <<W_confirm>>,
                   <<W_delete>>, <<W_do, W_it>>, <<W_go, W_ahead>>,
                   <<W_proceed>>, <<W_right>>, <<W_correct>>,
                   <<W_affirmative>>}
  \/ StartsWith(response, {W_yes, W_yesComma}, {W_delete, W_complete, W_mark})
  \/ StartsWith(response, {W_delete, W_complete, W_mark}, {W_it})
  \/ StartsWith(response, {W_go}, {W_ahead})

\* isAffirmativeResponse of the earlier revision
isAffirmativeResponseEarlier(response) ==
  response \in {<<W_yes>>, <<W_y>>, <<W_yeah>>, <<W_yep>>, <<W_yup>>,
                <<W_sure>>, <<W_ok>>, <<W_okay>>, <<W_confirm>>, <<W_delete>>,
                <<W_do, W_it>>, <<W_go, W_ahead>>, <<W_proceed>>, <<W_right>>}

\* the replies every processor takes as a refusal
NegativeWords ==
  {<<W_no>>, <<W_n>>, <<W_nope>>, <<W_cancel>>, <<W_stop>>, <<W_abort>>,
   <<W_nevermind>>, <<W_never, W_mind>>, <<W_don_t>>, <<W_dont>>, <<W_wait>>}

\* faulty variant of isNegativeResponse: only "no" is a refusal
isNegativeResponseNoOnly(response) == response = <<W_no>>

\* SmartCommandProcessor.isNegativeResponse
isNegativeResponse(response) ==
  \/ response \in NegativeWords \cup {<<W_back>>, <<W_negative>>}
  \/ StartsWith(response, {W_no, W_noComma}, {W_don_t, W_dont})
  \/ StartsWith(response, {W_don_t, W_dont}, {W_delete, W_complete, W_mark})
  \/ StartsWith(response, {W_cancel}, {W_that, W_it})

\* isNegativeResponse of the earlier revision
isNegativeResponseEarlier(response) ==
  response \in NegativeWords \cup {<<W_back>>}

\* SmartCommandProcessor.handleConfirmationResponse: the slot is cleared by
\* an affirmative and by a negative reply, and kept by any other
Smart_handleConfirmationResponse(inputText) ==
  LET lowerResponse == trim(toLowerCase(inputText))
      confirmation == smartConfirmation
      affirmative == isAffirmativeResponse(lowerResponse)
      Cleared(tasks, response) ==
        Effect(tasks, nextId, NoConfirmation, response)
  IN IF confirmation.action = "none"
     THEN Effect(store, nextId, smartConfirmation,
                 Failure("nothing to confirm"))
     ELSE IF affirmative /\ confirmation.action = "delete"
     THEN IF HasTask(store, confirmation.taskId)
          THEN Cleared(deleteTask(store, confirmation.taskId),
                       Result(TRUE, "deleted", "delete", 0))
          ELSE Cleared(store, Failure("delete failed"))
     ELSE IF affirmative /\ confirmation.action = "complete"
     THEN IF HasTask(store, confirmation.taskId)
          THEN Cleared(updateTaskStatus(store, confirmation.taskId,
                                        "completed"),
                       Result(TRUE, "completed", "complete", 0))
          ELSE Cleared(store, Failure("complete failed"))
     ELSE IF isNegativeResponse(lowerResponse)
     THEN Cleared(store, Result(TRUE, "cancelled", "", 0))
     ELSE Effect(store, nextId,
                 IF affirmative THEN NoConfirmation ELSE confirmation,
                 AskConfirmation("say yes or no", 0))

\* handleConfirmationResponse of the earlier revision: the slot is cleared on
\* entry and restored for an unclear reply; only a delete is carried out
SmartEarlier_handleConfirmationResponse(inputText) ==
  LET lowerResponse == trim(toLowerCase(inputText))
      confirmation == smartConfirmation
      Cleared(tasks, response) ==
        Effect(tasks, nextId, NoConfirmation, response)
  IN IF confirmation.action = "none"
     THEN Cleared(store, Failure("nothing to confirm"))
     ELSE IF /\ isAffirmativeResponseEarlier(lowerResponse)
             /\ confirmation.action = "delete"
     THEN IF HasTask(store, confirmation.taskId)
          THEN Cleared(deleteTask(store, confirmation.taskId),
                       Result(TRUE, "deleted", "delete", 0))
          ELSE Cleared(store, Failure("delete failed"))
     ELSE IF isNegativeResponseEarlier(lowerResponse)
     THEN Cleared(store, Result(TRUE, "cancelled", "", 0))
     ELSE Effect(store, nextId, confirmation,
                 AskConfirmation("say yes or no", 0))

\* SmartCommandProcessor.processCommand, without alternatives
Smart_processCommand(inputText) ==
  LET cleanInput == trim(inputText)
      Execute(intent) ==
        CASE intent.action = "add" -> executeAddTask(intent)
          [] intent.action = "complete" -> executeCompleteTask(intent)
          [] intent.action = "delete" ->
               executeDeleteTask(intent,
                                 findBestTaskMatch(intent.content, store))
          [] intent.action = "modify" -> executeModifyTask(intent)
          [] intent.action = "list" -> executeListTasks(intent)
          [] OTHER -> generateHelpResponse(cleanInput)
  IN IF IsEmpty(cleanInput)
     THEN Effect(store, nextId, smartConfirmation, Failure("no command"))
     ELSE IF smartConfirmation.action # "none"
     THEN Smart_handleConfirmationResponse(cleanInput)
     ELSE Execute(parseIntentWithContext(cleanInput))

\* processCommand of the earlier revision
SmartEarlier_processCommand(inputText) ==
  LET cleanInput == trim(inputText)
      Execute(intent) ==
        CASE intent.action = "add" -> executeAddTask(intent)
          [] intent.action = "complete" -> executeCompleteTaskEarlier(intent)
          [] intent.action = "delete" ->
               executeDeleteTask(intent,
                                 findBestTaskMatchEarlier(intent.content,
                                                          store))
          [] intent.action = "modify" -> executeModifyTask(intent)
          [] intent.action = "list" -> executeListTasks(intent)
          [] OTHER -> generateHelpResponse(cleanInput)
  IN IF IsEmpty(cleanInput)
     THEN Effect(store, nextId, smartConfirmation, Failure("no command"))
     ELSE IF smartConfirmation.action # "none"
     THEN SmartEarlier_handleConfirmationResponse(cleanInput)
     ELSE Execute(parseIntentWithContext(cleanInput))

\* ------------------------------------------------------ HybridTaskProcessor
W_command == <<"c","o","m","m","a","n","d">>

HasSuffix(w, p) ==
  Len(w) >= Len(p) /\ SubSeq(w, Len(w) - Len(p) + 1, Len(w)) = p

\* one "w\s+" of a pattern, optional when it stands in "(?: )?"
Lit(ws) == [words |-> ws, optional |-> FALSE]
Opt(ws) == [words |-> ws, optional |-> TRUE]

\* the position reached when the words of pat are read from position i on,
\* each followed by blanks and one more word; 0 when they are not there
RECURSIVE MatchAt(_, _, _)
MatchAt(L, i, pat) ==
  IF pat = <<>> THEN i
  ELSE IF i < Len(L) /\ L[i] \in Head(pat).words
  THEN MatchAt(L, i + 1, Tail(pat))
  ELSE IF Head(pat).optional THEN MatchAt(L, i, Tail(pat))
  ELSE 0

\* s.match(/(?:h1|h2)\s+ pat (.+)/i): the text captured by the leftmost
\* match, NoMatch when there is none; anchored stands for a leading ^
CaptureRest(s, heads, pat, anchored) ==
  LET L == toLowerCase(s)
      starts == {i \in 1..(Len(s) - 1) :
                   /\ IF anchored THEN i = 1 /\ L[i] \in heads
                      ELSE \E h \in heads : HasSuffix(L[i], h)
                   /\ MatchAt(L, i + 1, pat) # 0}
  IN IF starts = {} THEN NoMatch
     ELSE SubSeq(s, MatchAt(L, Leftmost(starts) + 1, pat), Len(s))

\* s.match(/(?:h1|h2)\s+(.+?) stop/i): the captured words run from the word
\* after the leftmost head up to the first position of stops that leaves one
\* word at least; heads {} stands for a pattern that starts with (.+?)
CaptureUpTo(s, heads, stops) ==
  LET L == toLowerCase(s)
      StopsAfter(i) == {j \in stops : j >= i + 2}
      starts == IF heads = {} THEN {0}
                ELSE {i \in 1..Len(s) : \E h \in heads : HasSuffix(L[i], h)}
      found == {i \in starts : StopsAfter(i) # {}}
  IN IF found = {} THEN NoMatch
     ELSE LET i == Leftmost(found)
          IN SubSeq(s, i + 1, Leftmost(StopsAfter(i)) - 1)

\* the positions of a word of ws that is followed by a word starting with
\* one of ps
StopsAt(s, ws, ps) ==
  {j \in 1..(Len(s) - 1) :
     /\ LowerWord(s[j]) \in ws
     /\ \E p \in ps : HasPrefix(LowerWord(s[j + 1]), p)}

\* the positions of a word starting with one of ps
StartsAt(s, ps) ==
  {j \in 1..Len(s) : \E p \in ps : HasPrefix(LowerWord(s[j]), p)}

HybridIntent(type, exactContent) ==
  [type |-> type, exactContent |-> exactContent]

\* HybridTaskProcessor.parseNaturalLanguageIntent: the add patterns, then the
\* complete patterns, then the delete patterns.  The third delete pattern,
\* remove\s+(?:the\s+)?(.+?)\s+task, matches only where the second one has
\* matched, and is never reached.
parseNaturalLanguageIntent(inputText) ==
  LET doneWords == {W_done, W_complete, W_finished}
      addPatterns ==
        << CaptureRest(inputText, {W_add, W_create, W_new},
                       <<Opt({W_a, W_the}), Lit({W_task})>>, FALSE),
           CaptureRest(inputText, {W_add},
                       <<Opt({W_the}), Lit({W_command}), Lit({W_create}),
                         Opt({W_the}), Lit({W_task}), Opt({W_of})>>, FALSE),
           CaptureRest(inputText, {W_create},
                       <<Opt({W_a, W_the}), Lit({W_task}),
                         Opt({W_for, W_to})>>, FALSE),
           CaptureRest(inputText, {W_remind},
                       <<Lit({W_me}), Lit({W_to})>>, FALSE),
           CaptureRest(inputText, {W_i},
                       <<Lit({W_need}), Lit({W_to})>>, FALSE),
           CaptureRest(inputText, {W_add}, <<>>, TRUE) >>
      completePatterns ==
        << CaptureUpTo(inputText, {W_mark, W_complete, W_finish},
                       StopsAt(inputText, {W_as}, doneWords)),
           CaptureRest(inputText, {W_complete, W_finish, W_mark},
                       <<Opt({W_the}), Lit({W_task})>>, FALSE),
           CaptureUpTo(inputText, {W_mark}, StartsAt(inputText, doneWords)),
           CaptureUpTo(inputText, {},
                       StopsAt(inputText, {W_is}, doneWords)),
           CaptureRest(inputText, {W_complete, W_finish}, <<>>, FALSE) >>
      deletePatterns ==
        << CaptureRest(inputText, {W_delete, W_remove, W_cancel},
                       <<Opt({W_the}), Lit({W_task})>>, FALSE),
           CaptureRest(inputText, {W_delete, W_remove, W_cancel}, <<>>,
                       FALSE) >>
  IN IF FirstMatch(addPatterns) # NoMatch
     THEN HybridIntent("add", trim(FirstMatch(addPatterns)))
     ELSE IF FirstMatch(completePatterns) # NoMatch
     THEN HybridIntent("complete", trim(FirstMatch(completePatterns)))
     ELSE IF FirstMatch(deletePatterns) # NoMatch
     THEN HybridIntent("delete", trim(FirstMatch(deletePatterns)))
     ELSE HybridIntent("unknown", <<>>)

\* faulty variant of TitleMatch: a title that includes the text is taken
\* whatever partial says
TitleMatchIncluding(text, tasks, partial) ==
  LET wanted == toLowerCase(text)
      Title(i) == toLowerCase(tasks[i].title)
      part == {i \in 1..Len(tasks) : includes(Title(i), wanted)}
  IN FirstTask(tasks, part)

\* the task matched by title: the exact title first, then a title that
\* includes the text (partial TRUE)
TitleMatch(text, tasks, partial) ==
  LET wanted == toLowerCase(text)
      Title(i) == toLowerCase(tasks[i].title)
      exact == {i \in 1..Len(tasks) : Chars(Title(i)) = Chars(wanted)}
      part == {i \in 1..Len(tasks) : partial /\ includes(Title(i), wanted)}
  IN IF exact # {} THEN FirstTask(tasks, exact) ELSE FirstTask(tasks, part)

\* HybridTaskProcessor.executeAddTask: the task is left to the caller
Hybrid_executeAddTask(exactContent) ==
  Effect(store, nextId, hybridConfirmation, Result(TRUE, "creating", "add", 0))

\* HybridTaskProcessor.executeCompleteTask: the task is completed at once
Hybrid_executeCompleteTask(exactContent) ==
  LET matchingTask == TitleMatch(exactContent, store, TRUE)
  IN IF matchingTask = NoTask
     THEN Effect(store, nextId, hybridConfirmation, Failure("not found"))
     ELSE IF matchingTask.status = "completed"
     THEN Effect(store, nextId, hybridConfirmation,
                 Result(FALSE, "already completed", "", matchingTask.id))
     ELSE Effect(updateTaskStatus(store, matchingTask.id, "completed"),
                 nextId, hybridConfirmation,
                 Result(TRUE, "completed", "complete", matchingTask.id))

\* HybridTaskProcessor.executeDeleteTask
Hybrid_executeDeleteTask(exactContent) ==
  LET matchingTask == TitleMatch(exactContent, store, TRUE)
  IN IF matchingTask = NoTask
     THEN Effect(store, nextId, hybridConfirmation, Failure("not found"))
     ELSE Effect(store, nextId, Confirmation(matchingTask.id, "delete"),
                 AskConfirmation("confirm delete", matchingTask.id))

\* isAffirmativeResponse of HybridTaskProcessor and of ExactVoiceProcessor
AffirmativeWords ==
  {<<W_yes>>, <<W_y>>, <<W_yeah>>, <<W_yep>>, <<W_yup>>, <<W_sure>>,
   <<W_ok>>, <<W_okay>>, <<W_confirm>>, <<W_delete>>, <<W_do, W_it>>,
   <<W_go, W_ahead>>, <<W_proceed>>}

\* faulty variant of handleConfirmationResponse: the slot is cleared on entry
\* and an unclear reply does not restore it
Hybrid_handleConfirmationResponseDropped(inputText) ==
  LET lowerResponse == trim(toLowerCase(inputText))
      confirmation == hybridConfirmation
      Cleared(tasks, response) ==
        Effect(tasks, nextId, NoConfirmation, response)
  IN IF lowerResponse \in AffirmativeWords /\ confirmation.action = "delete"
     THEN Cleared(deleteTask(store, confirmation.taskId),
                  Result(TRUE, "deleted", "delete", 0))
     ELSE IF lowerResponse \in NegativeWords
     THEN Cleared(store, Result(TRUE, "cancelled", "", 0))
     ELSE Cleared(store, AskConfirmation("say yes or no", 0))

\* HybridTaskProcessor.handleConfirmationResponse: the slot is cleared on
\* entry and restored for an unclear reply
Hybrid_handleConfirmationResponse(inputText) ==
  LET lowerResponse == trim(toLowerCase(inputText))
      confirmation == hybridConfirmation
      Cleared(tasks, response) ==
        Effect(tasks, nextId, NoConfirmation, response)
  IN IF confirmation.action = "none"
     THEN Cleared(store, Failure("nothing to confirm"))
     ELSE IF lowerResponse \in AffirmativeWords
             /\ confirmation.action = "delete"
     THEN IF HasTask(store, confirmation.taskId)
          THEN Cleared(deleteTask(store, confirmation.taskId),
                       Result(TRUE, "deleted", "delete", 0))
          ELSE Cleared(store, Failure("delete failed"))
     ELSE IF lowerResponse \in NegativeWords
     THEN Cleared(store, Result(TRUE, "cancelled", "", 0))
     ELSE Effect(store, nextId, confirmation,
                 AskConfirmation("say yes or no", 0))

\* HybridTaskProcessor.processCommand
Hybrid_processCommand(inputText) ==
  LET cleanInput == trim(inputText)
      intent == parseNaturalLanguageIntent(cleanInput)
  IN IF IsEmpty(cleanInput)
     THEN Effect(store, nextId, hybridConfirmation, Failure("no command"))
     ELSE IF hybridConfirmation.action # "none"
     THEN Hybrid_handleConfirmationResponse(cleanInput)
     ELSE CASE intent.type = "add" ->
                 Hybrid_executeAddTask(intent.exactContent)
            [] intent.type = "complete" ->
                 Hybrid_executeCompleteTask(intent.exactContent)
            [] intent.type = "delete" ->
                 Hybrid_executeDeleteTask(intent.exactContent)
            [] OTHER -> Effect(store, nextId, hybridConfirmation,
                               Failure("not understood"))

\* ------------------------------------ ExactTaskService, ExactVoiceProcessor
\* ExactTaskService.extractAddCommand
extractAddCommand(command) ==
  FirstMatch(<< CaptureRest(command, {W_add},
                            <<Opt({W_a}), Lit({W_task})>>, TRUE),
                CaptureRest(command, {W_add},
                            <<Opt({W_the}), Lit({W_task})>>, TRUE),
                CaptureRest(command, {W_create},
                            <<Opt({W_a}), Lit({W_task})>>, TRUE),
                CaptureRest(command, {W_add}, <<>>, TRUE) >>)

\* ExactTaskService.extractDeleteCommand
extractDeleteCommand(command) ==
  FirstMatch(<< CaptureRest(command, {W_delete},
                            <<Opt({W_the}), Lit({W_task})>>, TRUE),
                CaptureRest(command, {W_remove},
                            <<Opt({W_the}), Lit({W_task})>>, TRUE),
                CaptureRest(command, {W_delete}, <<>>, TRUE),
                CaptureRest(command, {W_remove}, <<>>, TRUE) >>)

\* /^mark\s+(.+)\s+(?:as\s+)?(?:complete|done|finished)$/i: the greedy (.+)
\* takes every word up to the last one, an "as" before it included
MarkDone(command) ==
  LET n == Len(command)
  IN IF /\ n >= 3
        /\ LowerWord(command[1]) = W_mark
        /\ LowerWord(command[n]) \in {W_complete, W_done, W_finished}
     THEN SubSeq(command, 2, n - 1) ELSE NoMatch

\* ExactTaskService.extractCompleteCommand
extractCompleteCommand(command) ==
  FirstMatch(<< CaptureRest(command, {W_complete, W_mark, W_finish},
                            <<Opt({W_the}), Lit({W_task})>>, TRUE),
                MarkDone(command),
                CaptureRest(command, {W_complete}, <<>>, TRUE),
                CaptureRest(command, {W_finish}, <<>>, TRUE) >>)

\* ExactTaskCommand: success, message, requiresConfirmation, taskAffected and
\* the store the command leaves
ExactTaskCommand(tasks, id, response) ==
  [store |-> tasks, nextId |-> id, result |-> response]

\* ExactTaskService.executeAddTask
Exact_executeAddTask(taskText) ==
  LET newTask == Task(nextId, taskText, "pending", "medium",
                      <<"exact-command">>)
  IN ExactTaskCommand(addTask(store, newTask), nextId + 1,
                      Result(TRUE, "added", "add", newTask.id))

\* ExactTaskService.executeDeleteTask: nothing is deleted here
Exact_executeDeleteTask(taskText) ==
  LET matchingTask == TitleMatch(taskText, store, FALSE)
  IN IF matchingTask = NoTask
     THEN ExactTaskCommand(store, nextId, Failure("not found"))
     ELSE ExactTaskCommand(store, nextId,
                           AskConfirmation("confirm delete", matchingTask.id))

\* ExactTaskService.executeCompleteTask
Exact_executeCompleteTask(taskText) ==
  LET matchingTask == TitleMatch(taskText, store, FALSE)
  IN IF matchingTask = NoTask
     THEN ExactTaskCommand(store, nextId, Failure("not found"))
     ELSE IF matchingTask.status = "completed"
     THEN ExactTaskCommand(store, nextId,
                           Result(FALSE, "already completed", "",
                                  matchingTask.id))
     ELSE ExactTaskCommand(updateTaskStatus(store, matchingTask.id,
                                            "completed"),
                           nextId,
                           Result(TRUE, "completed", "complete",
                                  matchingTask.id))

\* faulty variant of confirmDeleteTask: the task is not looked up first and
\* the delete is reported as done
confirmDeleteTaskUnchecked(taskId) ==
  ExactTaskCommand(deleteTask(store, taskId), nextId,
                   Result(TRUE, "deleted", "delete", taskId))

\* ExactTaskService.confirmDeleteTask
confirmDeleteTask(taskId) ==
  IF ~HasTask(store, taskId)
  THEN ExactTaskCommand(store, nextId, Failure("task not found"))
  ELSE ExactTaskCommand(deleteTask(store, taskId), nextId,
                        Result(TRUE, "deleted", "delete", taskId))

\* ExactTaskService.processExactCommand
processExactCommand(command) ==
  LET cleanCommand == trim(command)
      addMatch == trim(extractAddCommand(cleanCommand))
      deleteMatch == trim(extractDeleteCommand(cleanCommand))
      completeMatch == trim(extractCompleteCommand(cleanCommand))
  IN IF IsEmpty(cleanCommand)
     THEN ExactTaskCommand(store, nextId, Failure("no command"))
     ELSE IF addMatch # NoMatch THEN Exact_executeAddTask(addMatch)
     ELSE IF deleteMatch # NoMatch THEN Exact_executeDeleteTask(deleteMatch)
     ELSE IF completeMatch # NoMatch
     THEN Exact_executeCompleteTask(completeMatch)
     ELSE ExactTaskCommand(store, nextId, Failure("not recognized"))

\* ExactVoiceProcessor.handleConfirmationResponse: the slot holds a delete
ExactVoice_handleConfirmationResponse(response) ==
  LET lowerResponse == trim(toLowerCase(response))
      confirmation == exactConfirmation
      deleteResult == confirmDeleteTask(confirmation.taskId)
  IN IF confirmation.action = "none"
     THEN Effect(store, nextId, NoConfirmation, Failure("nothing to confirm"))
     ELSE IF lowerResponse \in AffirmativeWords
     THEN Effect(deleteResult.store, deleteResult.nextId, NoConfirmation,
                 deleteResult.result)
     ELSE IF lowerResponse \in NegativeWords
     THEN Effect(store, nextId, NoConfirmation,
                 Result(TRUE, "cancelled", "", 0))
     ELSE Effect(store, nextId, confirmation,
                 AskConfirmation("say yes or no", confirmation.taskId))

\* ExactVoiceProcessor.processVoiceCommand
ExactVoice_processVoiceCommand(transcript) ==
  LET cleanTranscript == trim(transcript)
      command == processExactCommand(cleanTranscript)
      asked == /\ ~command.result.success
               /\ command.result.requiresConfirmation
               /\ command.result.taskAffected # 0
  IN IF IsEmpty(cleanTranscript)
     THEN Effect(store, nextId, exactConfirmation, Failure("no voice input"))
     ELSE IF exactConfirmation.action # "none"
     THEN ExactVoice_handleConfirmationResponse(cleanTranscript)
     ELSE Effect(command.store, command.nextId,
                 IF asked
                 THEN Confirmation(command.result.taskAffected, "delete")
                 ELSE exactConfirmation,
                 command.result)

\* ------------------------------------------------------------ specification
InitialTask(id, title) == Task(id, title, "pending", "medium", <<>>)

\* the stores a session starts from
InitialStores ==
  { <<>>,
    <<InitialTask(1, T_BuyGroceries)>>,
    <<InitialTask(1, T_MeetingWithArjun), InitialTask(2, T_TeamMeetingPrep)>>,
    <<InitialTask(1, T_MeetingWithArjun), InitialTask(2, T_TeamMeetingPrep),
      InitialTask(3, T_BuyGroceries)>> }

Init ==
  /\ store \in InitialStores
  /\ nextId = Len(store) + 1
  /\ pendingConfirmation = NoPendingAction
  /\ pendingDisambiguation = NoDisambiguation
  /\ smartConfirmation = NoConfirmation
  /\ hybridConfirmation = NoConfirmation
  /\ exactConfirmation = NoConfirmation
  /\ promises = <<>>
  /\ voice = IdleVoice
  /\ engine = "SmartTaskAssistant"
  /\ input = <<>>
  /\ result = NoResponse

\* the store is kept within MaxTasks tasks and MaxId ids
WithinBounds(o) == Len(o.store) <= MaxTasks /\ o.nextId <= MaxId + 1

Becomes(o) ==
  /\ WithinBounds(o)
  /\ store' = o.store
  /\ nextId' = o.nextId
  /\ pendingConfirmation' = o.pendingConfirmation
  /\ pendingDisambiguation' = o.pendingDisambiguation
  /\ result' = o.result
  /\ UNCHANGED <<smartConfirmation, hybridConfirmation, exactConfirmation, engine, promises, voice>>

\* await SmartTaskAssistant.processCommand(u), by the route it takes
ConfirmationReply(u) ==
  /\ pendingConfirmation.type # "none"
  /\ input' = u
  /\ Becomes(processCommand(u))

DisambiguationReply(u) ==
  /\ pendingConfirmation.type = "none"
  /\ pendingDisambiguation.action.type # "none"
  /\ input' = u
  /\ Becomes(processCommand(u))

NewCommand(u) ==
  /\ pendingConfirmation.type = "none"
  /\ pendingDisambiguation.action.type = "none"
  /\ input' = u
  /\ Becomes(processCommand(u))

ProcessCommand(u) ==
  ConfirmationReply(u) \/ DisambiguationReply(u) \/ NewCommand(u)

\* SmartTaskAssistant.clearPendingState()
ClearPendingState ==
  /\ pendingConfirmation' = NoPendingAction
  /\ pendingDisambiguation' = NoDisambiguation
  /\ UNCHANGED <<store, nextId, input, result>>
  /\ UNCHANGED <<smartConfirmation, hybridConfirmation, exactConfirmation, engine, promises, voice>>

Next == (\E u \in Utterances : ProcessCommand(u)) \/ ClearPendingState

Spec == Init /\ [][Next]_vars

\* ------------------------------------------ every command path of the app
U_n == <<W_n>>
U_nope == <<W_nope>>
U_cancel == <<W_cancel>>
U_stop == <<W_stop>>
U_nevermind == <<W_nevermind>>
U_neverMind == <<W_never, W_mind>>

\* the negative replies every path with a confirmation slot understands
NegativeReplies ==
  {U_no, U_n, U_nope, U_cancel, U_stop, U_nevermind, U_neverMind}

EngineUtterances ==
  { U_addMeeting, U_deleteBuyGroceries, U_deleteMeeting, U_deleteItems,
    U_completeMeeting, U_changeMeeting, U_yes, U_maybe, U_1 }
  \cup NegativeReplies

\* what is typed into the command input
CommandInputUtterances == {U_addMeeting, U_deleteBuyGroceries}

\* the command paths; a session goes through one of them
Engines ==
  { "SmartTaskAssistant", "SmartCommandProcessor",
    "SmartCommandProcessor, earlier revision", "HybridTaskProcessor",
    "ExactVoiceProcessor", "VoiceCommandProcessor", "CommandInput" }

InitEngines ==
  /\ store \in InitialStores
  /\ nextId = Len(store) + 1
  /\ pendingConfirmation = NoPendingAction
  /\ pendingDisambiguation = NoDisambiguation
  /\ smartConfirmation = NoConfirmation
  /\ hybridConfirmation = NoConfirmation
  /\ exactConfirmation = NoConfirmation
  /\ promises = <<>>
  /\ voice = IdleVoice
  /\ engine \in Engines
  /\ input = <<>>
  /\ result = NoResponse

\* the store, the id counter and the result a call leaves
Leaves(e) ==
  /\ WithinBounds(e)
  /\ store' = e.store
  /\ nextId' = e.nextId
  /\ result' = e.result

\* await SmartTaskAssistant.processCommand(u)
AssistantCommand(u) == engine = "SmartTaskAssistant" /\ ProcessCommand(u)

AssistantClear == engine = "SmartTaskAssistant" /\ ClearPendingState

\* SmartCommandProcessor.processCommand(u)
SmartCommand(u) ==
  /\ engine = "SmartCommandProcessor"
  /\ input' = u
  /\ LET Call(e) == Leaves(e) /\ smartConfirmation' = e.confirmation
     IN Call(Smart_processCommand(u))
  /\ UNCHANGED <<pendingConfirmation, pendingDisambiguation, hybridConfirmation, exactConfirmation, engine, promises, voice>>

SmartCommandEarlier(u) ==
  /\ engine = "SmartCommandProcessor, earlier revision"
  /\ input' = u
  /\ LET Call(e) == Leaves(e) /\ smartConfirmation' = e.confirmation
     IN Call(SmartEarlier_processCommand(u))
  /\ UNCHANGED <<pendingConfirmation, pendingDisambiguation, hybridConfirmation, exactConfirmation, engine, promises, voice>>

\* SmartCommandProcessor.clearPendingConfirmation(), in both revisions
SmartClear ==
  /\ engine \in {"SmartCommandProcessor",
                 "SmartCommandProcessor, earlier revision"}
  /\ smartConfirmation' = NoConfirmation
  /\ UNCHANGED <<store, nextId, pendingConfirmation, pendingDisambiguation, hybridConfirmation, exactConfirmation, engine, promises, voice, input, result>>

\* HybridTaskProcessor.processCommand(u)
HybridCommand(u) ==
  /\ engine = "HybridTaskProcessor"
  /\ input' = u
  /\ LET Call(e) == Leaves(e) /\ hybridConfirmation' = e.confirmation
     IN Call(Hybrid_processCommand(u))
  /\ UNCHANGED <<pendingConfirmation, pendingDisambiguation, smartConfirmation, exactConfirmation, engine, promises, voice>>

\* HybridTaskProcessor.clearPendingConfirmation()
HybridClear ==
  /\ engine = "HybridTaskProcessor"
  /\ hybridConfirmation' = NoConfirmation
  /\ UNCHANGED <<store, nextId, pendingConfirmation, pendingDisambiguation, smartConfirmation, exactConfirmation, engine, promises, voice, input, result>>

\* ExactVoiceProcessor.processVoiceCommand(u)
ExactVoiceCommand(u) ==
  /\ engine = "ExactVoiceProcessor"
  /\ input' = u
  /\ LET Call(e) == Leaves(e) /\ exactConfirmation' = e.confirmation
     IN Call(ExactVoice_processVoiceCommand(u))
  /\ UNCHANGED <<pendingConfirmation, pendingDisambiguation, smartConfirmation, hybridConfirmation, engine, promises, voice>>

\* ExactVoiceProcessor.clearPendingConfirmation()
ExactVoiceClear ==
  /\ engine = "ExactVoiceProcessor"
  /\ exactConfirmation' = NoConfirmation
  /\ UNCHANGED <<store, nextId, pendingConfirmation, pendingDisambiguation, smartConfirmation, hybridConfirmation, engine, promises, voice, input, result>>

\* VoiceCommandProcessor.processVoiceCommand(u)
VoiceCommand(u) ==
  /\ engine = "VoiceCommandProcessor"
  /\ input' = u
  /\ Leaves(processVoiceCommand(u))
  /\ UNCHANGED <<pendingConfirmation, pendingDisambiguation, smartConfirmation, hybridConfirmation, exactConfirmation, engine, promises, voice>>

\* CommandInput: handleSubmit passes input.trim() when it is not empty, and
\* processCommand acts on what GeminiService.parseVoiceCommand returns
CommandInputSubmit(u) ==
  /\ engine = "CommandInput"
  /\ ~IsEmpty(trim(u))
  /\ input' = u
  /\ \E command \in parseVoiceCommand(trim(u)) :
        Leaves(processCommandInput(command))
  /\ UNCHANGED <<pendingConfirmation, pendingDisambiguation, smartConfirmation, hybridConfirmation, exactConfirmation, engine, promises, voice>>

NextEngines ==
  \/ \E u \in EngineUtterances : AssistantCommand(u)
  \/ AssistantClear
  \/ \E u \in EngineUtterances : SmartCommand(u)
  \/ \E u \in EngineUtterances : SmartCommandEarlier(u)
  \/ SmartClear
  \/ \E u \in EngineUtterances : HybridCommand(u)
  \/ HybridClear
  \/ \E u \in EngineUtterances : ExactVoiceCommand(u)
  \/ ExactVoiceClear
  \/ \E u \in EngineUtterances : VoiceCommand(u)
  \/ \E u \in CommandInputUtterances : CommandInputSubmit(u)

SpecEngines == InitEngines /\ [][NextEngines]_vars

\* ------------------------------- the task cards beside the command engines
\* a call of the session's path with utterance u, for the paths that have a
\* confirmation slot
SlotEngineCall(u) ==
  \/ AssistantCommand(u)
  \/ SmartCommand(u)
  \/ SmartCommandEarlier(u)
  \/ HybridCommand(u)
  \/ ExactVoiceCommand(u)

\* useEditableTasks.deleteTask(taskId) on a saved task: the delete button of
\* a task card, which does not look at what an engine has pending
CardDelete(taskId) ==
  /\ HasTask(store, taskId)
  /\ store' = deleteTask(store, taskId)
  /\ UNCHANGED <<nextId, pendingConfirmation, pendingDisambiguation, smartConfirmation, hybridConfirmation, exactConfirmation, engine, promises, voice, input, result>>

InitCards ==
  /\ InitEngines
  /\ engine \notin {"VoiceCommandProcessor", "CommandInput"}

NextCards ==
  \/ \E u \in EngineUtterances : SlotEngineCall(u)
  \/ \E taskId \in 1..MaxId : CardDelete(taskId)

SpecCards == InitCards /\ [][NextCards]_vars

\* ------------------------------------------------- the round trip dialogue
U_completeBuyMilk == <<W_complete, W_Buy, W_milk>>

\* what is said in a session that adds a task and completes it
RoundTripUtterances == {U_addBuyMilk, U_completeBuyMilk, U_yes, U_no}

\* a call of the session's processor with utterance u
EngineCall(u) == SlotEngineCall(u) \/ VoiceCommand(u)

InitRoundTrip == InitEngines /\ engine # "CommandInput"

NextRoundTrip == \E u \in RoundTripUtterances : EngineCall(u)

SpecRoundTrip == InitRoundTrip /\ [][NextRoundTrip]_vars

\* ------------------------------------------------- the matchers on their own
W_0 == <<"0">>
W_4 == <<"4">>
T_Meeting == <<W_Meeting>>
T_Meeting3 == <<W_Meeting, W_3>>

\* the titles of the task lists the matchers are applied to
MatcherTitles ==
  {T_BuyGroceries, T_MeetingWithArjun, T_Meeting, T_Meeting3}

\* every list of at most MaxTasks tasks with these titles, ids in order
MatcherStores ==
  UNION { { [i \in 1..n |-> InitialTask(i, titles[i])] :
              titles \in [1..n -> MatcherTitles] } : n \in 0..MaxTasks }

\* a task number as it is said
NumberQueries == {<<W_0>>, <<W_1>>, <<W_2>>, <<W_3>>, <<W_4>>}

\* a task name as it is said
NameQueries ==
  {U_meeting, <<W_meeting, W_3>>, <<W_buy, W_groceries>>, U_Arjun}

\* 'grocery shopping', the example of SMART_ASSISTANT_GUIDE.md
W_grocery == <<"g","r","o","c","e","r","y">>
U_groceryShopping == <<W_grocery, W_shopping>>

\* what is looked for with findTaskSuggestions
SuggestionQueries == NameQueries \cup {U_groceryShopping}

\* the task a matcher returns, taskAffected 0 for null
Returned(matcher, task) == Result(task # NoTask, matcher, "", task.id)

InitMatchers ==
  /\ store \in MatcherStores
  /\ nextId = Len(store) + 1
  /\ pendingConfirmation = NoPendingAction
  /\ pendingDisambiguation = NoDisambiguation
  /\ smartConfirmation = NoConfirmation
  /\ hybridConfirmation = NoConfirmation
  /\ exactConfirmation = NoConfirmation
  /\ promises = <<>>
  /\ voice = IdleVoice
  /\ engine \in {"SmartTaskAssistant", "SmartCommandProcessor",
                 "SmartCommandProcessor, earlier revision",
                 "VoiceCommandProcessor"}
  /\ input = <<>>
  /\ result = NoResponse

\* a call of a matcher with query as its argument
MatcherCall(query, response) ==
  /\ input' = query
  /\ result' = response
  /\ UNCHANGED <<store, nextId, pendingConfirmation, pendingDisambiguation, smartConfirmation, hybridConfirmation, exactConfirmation, engine, promises, voice>>

\* VoiceCommandProcessor.findTaskByNumber(parseInt(query))
FindTaskByNumber(query) ==
  /\ engine = "VoiceCommandProcessor"
  /\ MatcherCall(query,
                 Returned("findTaskByNumber",
                          findTaskByNumber(store, parseInt(query[1]))))

\* VoiceCommandProcessor.findTaskByName(query)
FindTaskByName(query) ==
  /\ engine = "VoiceCommandProcessor"
  /\ MatcherCall(query,
                 Returned("findTaskByName", findTaskByName(store, query)))

\* SmartCommandProcessor.findBestTaskMatch(query, StorageService.getTasks())
FindBestTaskMatch(query) ==
  /\ engine = "SmartCommandProcessor"
  /\ MatcherCall(query,
                 Returned("findBestTaskMatch",
                          findBestTaskMatch(query, store)))

FindBestTaskMatchEarlier(query) ==
  /\ engine = "SmartCommandProcessor, earlier revision"
  /\ MatcherCall(query,
                 Returned("findBestTaskMatch",
                          findBestTaskMatchEarlier(query, store)))

\* SmartTaskAssistant.findTaskSuggestions(query): candidateTasks holds the
\* ids of the suggestions in their order
FindTaskSuggestions(query) ==
  /\ engine = "SmartTaskAssistant"
  /\ LET Suggested(suggestions) ==
           Response(suggestions # <<>>, "findTaskSuggestions", "", FALSE,
                    FALSE, Ids(SuggestedTasks(suggestions)), 0)
     IN MatcherCall(query, Suggested(findTaskSuggestions(query, store)))

NextMatchers ==
  \/ \E query \in NumberQueries : FindTaskByNumber(query)
  \/ \E query \in NameQueries : FindTaskByName(query)
  \/ \E query \in NumberQueries \cup NameQueries : FindBestTaskMatch(query)
  \/ \E query \in NameQueries : FindBestTaskMatchEarlier(query)
  \/ \E query \in SuggestionQueries : FindTaskSuggestions(query)

SpecMatchers == InitMatchers /\ [][NextMatchers]_vars

\* ------------------------------------------------- tasks spoken of by number
W_my == <<"m","y">>
U_markTaskNumber1 == <<W_mark, W_task, W_number, W_1>>
U_markTaskNumber2 == <<W_mark, W_task, W_number, W_2>>
U_markTaskNumber1AsDone == <<W_mark, W_task, W_number, W_1, W_as, W_done>>
U_markTaskNumber2AsDone == <<W_mark, W_task, W_number, W_2, W_as, W_done>>
U_showMyTasks == <<W_show, W_my, W_tasks>>
W_2kg == <<"2","k","g">>
W_rice == <<"r","i","c","e">>
U_markTheTask == <<W_mark, W_the, W_task>>
U_deleteSecondTask == <<W_delete, W_second, W_task>>
U_mark2kgRice == <<W_mark, W_2kg, W_rice>>
U_deleteThis == <<W_delete, W_this>>

NumberUtterances ==
  { U_markTaskNumber1, U_markTaskNumber2, U_markTaskNumber1AsDone,
    U_markTaskNumber2AsDone, U_markTheTask, U_deleteSecondTask,
    U_mark2kgRice, U_deleteThis, U_markBuyGroceries, U_showMyTasks,
    U_yes, U_no }

\* a stored task that has been completed
CompletedTask(id, title) ==
  [InitialTask(id, title) EXCEPT !.status = "completed"]

\* the stores such a session starts from, completed tasks among them
NumberStores ==
  InitialStores \cup
  { <<CompletedTask(1, T_BuyGroceries)>>,
    <<CompletedTask(1, T_MeetingWithArjun), InitialTask(2, T_BuyGroceries)>>,
    <<InitialTask(1, T_MeetingWithArjun), CompletedTask(2, T_TeamMeetingPrep),
      InitialTask(3, T_BuyGroceries)>> }

InitNumbers ==
  /\ store \in NumberStores
  /\ nextId = Len(store) + 1
  /\ pendingConfirmation = NoPendingAction
  /\ pendingDisambiguation = NoDisambiguation
  /\ smartConfirmation = NoConfirmation
  /\ hybridConfirmation = NoConfirmation
  /\ exactConfirmation = NoConfirmation
  /\ promises = <<>>
  /\ voice = IdleVoice
  /\ engine \in {"SmartCommandProcessor", "VoiceCommandProcessor"}
  /\ input = <<>>
  /\ result = NoResponse

NextNumbers ==
  \E u \in NumberUtterances : SmartCommand(u) \/ VoiceCommand(u)

SpecNumbers == InitNumbers /\ [][NextNumbers]_vars

\* -------------------------------------------- the commands of the guide
\* "Mark the task 'Buy groceries' as done", "Delete the task '...'" and
\* "Remove task '...' from the list" of SMART_ASSISTANT_GUIDE.md
U_markTheTaskBuyGroceries ==
  <<W_mark, W_the, W_task, W_qBuy, W_groceriesq, W_as, W_done>>
U_deleteTheTaskBuyGroceries == <<W_delete, W_the, W_task, W_qBuy, W_groceriesq>>
U_removeTaskBuyGroceries ==
  <<W_remove, W_task, W_qBuy, W_groceriesq, W_from, W_the, W_list>>

\* "change 'meeting' " with a blank at its end
U_changeMeetingBlank == <<W_change, W_qmeetingq, <<>>>>
U_changePrep == <<W_change, W_qprepq, W_to, W_Buy, W_milk>>

GuideUtterances ==
  { U_markTheTaskBuyGroceries, U_deleteTheTaskBuyGroceries,
    U_removeTaskBuyGroceries, U_markBuyGroceries, U_deleteBuyGroceries,
    U_deleteMeeting, U_completeMeeting, U_changeMeeting, U_changePrep,
    U_changeMeetingBlank, U_yes, U_no, U_1 }

NextGuide == \E u \in GuideUtterances : ProcessCommand(u)

SpecGuide == Init /\ [][NextGuide]_vars

\* ------------------------------------------- claims on SmartTaskAssistant
\* the tasks of the pending disambiguation's candidates
CandidateTasks == SuggestedTasks(pendingDisambiguation.candidates)

\* the reply u holds a number that is the position of a candidate
InRangeNumber(u) ==
  LET numberMatch == FirstDigits(Chars(toLowerCase(u)))
  IN /\ numberMatch # <<>>
     /\ parseInt(numberMatch) \in 1..Len(pendingDisambiguation.candidates)

\* the candidates the text of the reply u matches
TextMatches(u) == findTaskSuggestions(toLowerCase(u), CandidateTasks)

\* C1: whenever a confirmation is pending and the next utterance is neither
\* an affirmative nor a negative reply, the same confirmation (type, taskId,
\* newContent) is still pending after processCommand and the store is
\* unchanged.
C1_UnclearReplyKeepsConfirmation ==
  [][\A u \in Utterances :
       (/\ ConfirmationReply(u)
        /\ ~isYes(toLowerCase(u))
        /\ ~isNo(toLowerCase(u)))
       => /\ pendingConfirmation'.type = pendingConfirmation.type
          /\ pendingConfirmation'.taskId = pendingConfirmation.taskId
          /\ pendingConfirmation'.newContent = pendingConfirmation.newContent
          /\ store' = store]_vars

\* C2: whenever a disambiguation is pending and the next utterance selects no
\* candidate (no in-range number, no unique text match), the same
\* disambiguation (action and candidate list) is still pending after
\* processCommand and the store is unchanged.
C2_InvalidSelectionKeepsDisambiguation ==
  [][\A u \in Utterances :
       (/\ DisambiguationReply(u)
        /\ ~InRangeNumber(u)
        /\ Len(TextMatches(u)) # 1)
       => /\ pendingDisambiguation' = pendingDisambiguation
          /\ store' = store]_vars

\* C4: in every reachable state pendingConfirmation and pendingDisambiguation
\* are never both non-null.
C4_AtMostOnePending ==
  ~(/\ pendingConfirmation.type # "none"
    /\ pendingDisambiguation.action.type # "none")

\* a selection among candidates has just turned a pending disambiguation
\* into a pending delete confirmation
C4_Witness ==
  /\ pendingConfirmation.type = "delete"
  /\ pendingDisambiguation = NoDisambiguation
  /\ result.message = "confirm delete"
  /\ input \in {U_1, U_2, U_Arjun}

\* C6: with a store holding exactly one task, titled 'Buy groceries', the
\* utterance 'delete Buy groceries' returns requiresConfirmation, sets a
\* pending delete for that task's id and leaves the store unchanged; the
\* following 'yes' empties the store, returns success and leaves nothing
\* pending.
C6_DeleteDialogue ==
  [][/\ (/\ Len(store) = 1
         /\ store[1].title = T_BuyGroceries
         /\ NewCommand(U_deleteBuyGroceries))
        => /\ result'.requiresConfirmation
           /\ pendingConfirmation'.type = "delete"
           /\ pendingConfirmation'.taskId = store[1].id
           /\ store' = store
     /\ (/\ Len(store) = 1
         /\ store[1].title = T_BuyGroceries
         /\ pendingConfirmation.type = "delete"
         /\ pendingConfirmation.taskId = store[1].id
         /\ pendingConfirmation.originalCommand = T_BuyGroceries
         /\ ConfirmationReply(U_yes))
        => /\ store' = <<>>
           /\ result'.success
           /\ pendingConfirmation' = NoPendingAction
           /\ pendingDisambiguation' = NoDisambiguation]_vars

\* the dialogue has run to its end: 'yes' has deleted the only task
C6_Witness ==
  /\ store = <<>>
  /\ input = U_yes
  /\ result.success
  /\ result.action = "delete"

\* C7: from Idle, a complete, delete or modify command whose target matches
\* more than one task above the threshold leaves a pending disambiguation
\* holding the ranked candidates and the action, for complete as well as for
\* delete and modify.
C7_ManyMatchesAwaitDisambiguation ==
  [][\A u \in Utterances :
       LET intent == detectIntent(u)
           suggestions == findTaskSuggestions(intent.taskName, store)
       IN (/\ NewCommand(u)
           /\ intent.type \in {"complete", "delete", "modify"}
           /\ Len(suggestions) > 1)
          => /\ pendingDisambiguation'.action.type = intent.type
             /\ pendingDisambiguation'.candidates = suggestions]_vars

\* C8: with N >= 2 candidates pending for a delete or a modify, the reply
\* that is the digit string k, k in 1..N, leaves a pending confirmation for
\* the action with the id of candidate k of the list, clears the
\* disambiguation and leaves the store unchanged.
C8_DigitSelectsCandidate ==
  [][\A u \in {U_1, U_2, U_3} :
       LET k == parseInt(u[1])
           candidates == pendingDisambiguation.candidates
       IN (/\ DisambiguationReply(u)
           /\ Len(candidates) >= 2
           /\ k <= Len(candidates)
           /\ pendingDisambiguation.action.type \in {"delete", "modify"})
          => /\ pendingConfirmation' =
                  [pendingDisambiguation.action
                     EXCEPT !.taskId = candidates[k].task.id]
             /\ \A j \in 1..Len(candidates) :
                  j # k => pendingConfirmation'.taskId # candidates[j].task.id
             /\ pendingDisambiguation' = NoDisambiguation
             /\ store' = store]_vars

\* the reply '2' has selected the second candidate of a pending modify
C8_Witness ==
  /\ input = U_2
  /\ pendingConfirmation.type = "modify"
  /\ pendingConfirmation.taskId # 0
  /\ result.taskAffected = pendingConfirmation.taskId
  /\ pendingDisambiguation = NoDisambiguation

\* C9: with a store holding 'Meeting with Arjun' and 'Team meeting prep',
\* the utterance 'delete the meeting task' returns requiresDisambiguation
\* with both tasks as candidates and leaves the store unchanged.
C9_MeetingQueryListsBoth ==
  [][(/\ Len(store) = 2
      /\ {store[1].title, store[2].title}
           = {T_MeetingWithArjun, T_TeamMeetingPrep}
      /\ NewCommand(U_deleteTheMeetingTask))
     => /\ result'.requiresDisambiguation
        /\ Range(result'.candidateTasks) = {store[1].id, store[2].id}
        /\ store' = store]_vars

\* C10: with a disambiguation pending for a delete or a modify, a free-text
\* reply that matches exactly one of the candidates leaves a pending
\* confirmation of that action for that candidate.
C10_TextReplySelectsCandidate ==
  [][\A u \in Utterances :
       (/\ DisambiguationReply(u)
        /\ FirstDigits(Chars(u)) = <<>>
        /\ Len(TextMatches(u)) = 1
        /\ pendingDisambiguation.action.type \in {"delete", "modify"})
       => /\ pendingConfirmation'.type = pendingDisambiguation.action.type
          /\ pendingConfirmation'.taskId = TextMatches(u)[1].task.id
          /\ pendingDisambiguation' = NoDisambiguation
          /\ store' = store]_vars

\* ------------------------------------------- claims on every command path
\* the action of the pending confirmation of the session's path, "none" when
\* nothing is pending or the path has no confirmation slot
PendingType ==
  CASE engine = "SmartTaskAssistant" -> pendingConfirmation.type
    [] engine \in {"SmartCommandProcessor",
                   "SmartCommandProcessor, earlier revision"} ->
         smartConfirmation.action
    [] engine = "HybridTaskProcessor" -> hybridConfirmation.action
    [] engine = "ExactVoiceProcessor" -> exactConfirmation.action
    [] OTHER -> "none"

\* the reply is one the session's path takes as a yes
AffirmativeReply(u) ==
  CASE engine = "SmartTaskAssistant" -> isYes(toLowerCase(u))
    [] engine = "SmartCommandProcessor" ->
         isAffirmativeResponse(toLowerCase(u))
    [] engine = "SmartCommandProcessor, earlier revision" ->
         isAffirmativeResponseEarlier(toLowerCase(u))
    [] engine \in {"HybridTaskProcessor", "ExactVoiceProcessor"} ->
         toLowerCase(u) \in AffirmativeWords
    [] OTHER -> FALSE

\* a task of the store is gone after the step
TaskRemoved == \E i \in 1..Len(store) : ~HasTask(store', store[i].id)

\* C3: on every command path a task is removed from the store only by a
\* step that processes an affirmative reply to a pending delete confirmation;
\* a delete utterance received with nothing pending leaves the store as it is.
C3_RemovalOnlyOnConfirmedDelete ==
  [][TaskRemoved => (PendingType = "delete" /\ AffirmativeReply(input'))]_vars

\* C5: on every path with a confirmation slot, whatever the pending action
\* (delete, modify, complete), a negative reply (no, n, nope, cancel, stop,
\* nevermind, never mind) clears the pending confirmation, returns
\* success = true and leaves every task of the store unchanged.
C5_NegativeReplyCancels ==
  [][\A u \in NegativeReplies :
       (PendingType # "none" /\ SlotEngineCall(u))
         => (PendingType' = "none" /\ result'.success /\ store' = store)]_vars

\* a complete confirmation of SmartCommandProcessor has been refused
C5_Witness ==
  /\ engine = "SmartCommandProcessor"
  /\ input \in NegativeReplies
  /\ result.success /\ result.message = "cancelled"
  /\ smartConfirmation = NoConfirmation
  /\ store # <<>>

\* the four processors that keep one confirmation slot
SlotProcessors ==
  { "SmartCommandProcessor", "SmartCommandProcessor, earlier revision",
    "HybridTaskProcessor", "ExactVoiceProcessor" }

\* the task id of the pending confirmation of the session's processor
PendingTaskId ==
  CASE engine = "SmartTaskAssistant" -> pendingConfirmation.taskId
    [] engine \in {"SmartCommandProcessor",
                   "SmartCommandProcessor, earlier revision"} ->
         smartConfirmation.taskId
    [] engine = "HybridTaskProcessor" -> hybridConfirmation.taskId
    [] engine = "ExactVoiceProcessor" -> exactConfirmation.taskId
    [] OTHER -> 0

\* the reply is one the session's path takes as a no
NegativeReply(u) ==
  CASE engine = "SmartTaskAssistant" -> isNo(toLowerCase(u))
    [] engine = "SmartCommandProcessor" -> isNegativeResponse(toLowerCase(u))
    [] engine = "SmartCommandProcessor, earlier revision" ->
         isNegativeResponseEarlier(toLowerCase(u))
    [] engine \in {"HybridTaskProcessor", "ExactVoiceProcessor"} ->
         toLowerCase(u) \in NegativeWords
    [] OTHER -> FALSE

\* the store after the pending action has been carried out on the pending task
PendingActionDone ==
  CASE PendingType = "delete" -> deleteTask(store, PendingTaskId)
    [] PendingType = "complete" ->
         updateTaskStatus(store, PendingTaskId, "completed")
    [] OTHER -> store

C13_EmptyAddCreatesNoTask ==
  [][/\ \A u \in Utterances :
          (/\ NewCommand(u)
           /\ detectIntent(u).type = "add"
           /\ IsEmpty(detectIntent(u).content))
          => (~result'.success /\ store' = store)
     /\ \A i \in 1..Len(store') :
          ~HasTask(store, store'[i].id) => ~IsEmpty(store'[i].title)]_vars

\* the text after the action words of an utterance the session's path
\* classifies as an add, <<>> when the utterance is no add
AddContent(u) ==
  CASE engine = "SmartTaskAssistant" ->
         IF detectIntent(u).type = "add" THEN detectIntent(u).content
         ELSE <<>>
    [] engine = "ExactVoiceProcessor" -> trim(extractAddCommand(trim(u)))
    [] engine = "VoiceCommandProcessor" ->
         IF parseCommand(u).action = "add"
         THEN trim(RemoveWords(toLowerCase(u),
                               {W_add, W_create, W_new, W_task, W_tasks}))
         ELSE <<>>
    [] OTHER -> <<>>

\* C14: an utterance classified as an add, with a non-empty text after the
\* action words and nothing pending, succeeds and puts one task in the store
\* whose title is that text; for VoiceCommandProcessor.processVoiceCommand as
\* for SmartTaskAssistant and ExactTaskService.
C14_AddKeepsContent ==
  [][\A u \in EngineUtterances :
       (/\ PendingType = "none"
        /\ pendingDisambiguation = NoDisambiguation
        /\ ~IsEmpty(AddContent(u))
        /\ (AssistantCommand(u) \/ ExactVoiceCommand(u) \/ VoiceCommand(u)))
       => /\ result'.success
          /\ Len(store') = Len(store) + 1
          /\ store'[1].title = AddContent(u)]_vars

\* the task a complete command u resolves to on the session's path, by the
\* lookup of that path; NoTask when u is no complete command there or the
\* lookup finds no single task
ResolvedForComplete(u) ==
  CASE engine = "SmartTaskAssistant" ->
         LET Single(suggestions) ==
               IF Len(suggestions) = 1 THEN suggestions[1].task ELSE NoTask
         IN IF detectIntent(u).type = "complete"
            THEN Single(findTaskSuggestions(detectIntent(u).taskName, store))
            ELSE NoTask
    [] engine = "SmartCommandProcessor" ->
         LET Match(intent) ==
               IF intent.action = "complete" /\ ~IsEmpty(intent.content)
               THEN findBestTaskMatch(intent.content, NotCompleted(store))
               ELSE NoTask
         IN Match(parseIntentWithContext(trim(u)))
    [] engine = "SmartCommandProcessor, earlier revision" ->
         LET Match(intent) ==
               IF intent.action = "complete" /\ ~IsEmpty(intent.content)
               THEN findBestTaskMatchEarlier(intent.content, store)
               ELSE NoTask
         IN Match(parseIntentWithContext(trim(u)))
    [] engine = "HybridTaskProcessor" ->
         LET Match(intent) ==
               IF intent.type = "complete"
               THEN TitleMatch(intent.exactContent, store, TRUE)
               ELSE NoTask
         IN Match(parseNaturalLanguageIntent(trim(u)))
    [] engine = "ExactVoiceProcessor" ->
         IF /\ trim(extractAddCommand(trim(u))) = NoMatch
            /\ trim(extractDeleteCommand(trim(u))) = NoMatch
            /\ trim(extractCompleteCommand(trim(u))) # NoMatch
         THEN TitleMatch(trim(extractCompleteCommand(trim(u))), store, FALSE)
         ELSE NoTask
    [] engine = "VoiceCommandProcessor" ->
         LET Target(parsed) ==
               IF parsed.action = "mark"
               THEN TargetTask(parsed.targetType, parsed.target,
                               getTasksByStatus(store, "pending"))
               ELSE NoTask
         IN Target(parseCommand(u))
    [] OTHER -> NoTask

\* C15: a complete (mark) command (the utterance input' of the step) received
\* with nothing pending that resolves to a task whose status is already
\* "completed" returns
\* success = false with the "already completed" message and leaves the store
\* as it is: updateTaskStatus is not called.
C15_CompletedTaskIsNotCompletedAgain ==
  [][(/\ PendingType = "none"
      /\ pendingDisambiguation = NoDisambiguation
      /\ EngineCall(input')
      /\ ResolvedForComplete(input').status = "completed")
     => /\ ~result'.success
        /\ result'.message = "already completed"
        /\ store' = store]_vars

\* 'complete meeting' has been said to VoiceCommandProcessor once more for a
\* task that is completed
C15_Witness ==
  /\ engine = "VoiceCommandProcessor"
  /\ input = U_completeMeeting
  /\ result.message = "already completed"
  /\ \E i \in 1..Len(store) : store[i].status = "completed"

\* a task titled 'Buy milk' with the status is in the store
HasBuyMilk(tasks, status) ==
  \E i \in 1..Len(tasks) :
     tasks[i].title = T_BuyMilk /\ tasks[i].status = status

\* C16: the round trip, step by step, from any store and with nothing
\* pending.  'add task Buy milk' succeeds and leaves a pending task titled
\* 'Buy milk'; 'complete Buy milk' said next completes a task titled
\* 'Buy milk' or asks to confirm that for such a task, and the 'yes' that
\* follows completes it; 'complete Buy milk' said once more fails with the
\* "already completed" message and changes nothing.
C16_AddCompleteRoundTrip ==
  [][/\ (/\ PendingType = "none"
         /\ pendingDisambiguation = NoDisambiguation
         /\ EngineCall(U_addBuyMilk))
        => (result'.success /\ HasBuyMilk(store', "pending"))
     /\ (/\ input = U_addBuyMilk
         /\ result.success
         /\ EngineCall(U_completeBuyMilk))
        => \/ HasBuyMilk(store', "completed")
           \/ /\ PendingType' = "complete"
              /\ getTaskById(store', PendingTaskId').title = T_BuyMilk
     /\ (/\ input = U_completeBuyMilk
         /\ PendingType = "complete"
         /\ EngineCall(U_yes))
        => /\ getTaskById(store', PendingTaskId).title = T_BuyMilk
           /\ getTaskById(store', PendingTaskId).status = "completed"
     /\ (/\ input \in {U_completeBuyMilk, U_yes}
         /\ result.success
         /\ result.action \in {"complete", "mark"}
         /\ EngineCall(U_completeBuyMilk))
        => /\ ~result'.success
           /\ result'.message = "already completed"
           /\ store' = store]_vars

\* C17: for a task list of length L, the task number N said on its own
\* resolves to the task at the 1-based position N when 1 <= N <= L and to no
\* task otherwise, for VoiceCommandProcessor.findTaskByNumber and for
\* SmartCommandProcessor.findBestTaskMatch alike: no text match takes over.
C17_NumberResolvesByPosition ==
  (/\ result.message \in {"findTaskByNumber", "findBestTaskMatch"}
   /\ input \in NumberQueries)
  => result.taskAffected =
       IF parseInt(input[1]) \in 1..Len(store)
       THEN store[parseInt(input[1])].id ELSE 0

\* the positions of the tasks whose title equals the query, letter case aside
ExactMatches(query, tasks) ==
  {i \in 1..Len(tasks) : toLowerCase(tasks[i].title) = toLowerCase(query)}

\* C18: in every task list where exactly one title equals the query, letter
\* case aside, findTaskSuggestions puts that task first with similarity 1.0
\* and gives no other candidate similarity 1.0, and findTaskByName and
\* findBestTaskMatch return that task, wherever it stands in the list.
C18_ExactTitleIsTopMatch ==
  (/\ result.message \in {"findTaskSuggestions", "findTaskByName",
                          "findBestTaskMatch"}
   /\ Cardinality(ExactMatches(input, store)) = 1)
  => LET exact == store[CHOOSE i \in ExactMatches(input, store) : TRUE]
         TopRanked(suggestions) ==
           /\ suggestions # <<>>
           /\ suggestions[1].task = exact
           /\ suggestions[1].similarity = Sim("exact", 10, 10)
           /\ \A k \in 2..Len(suggestions) :
                 SimGreater(suggestions[1].similarity,
                            suggestions[k].similarity)
     IN IF result.message = "findTaskSuggestions"
        THEN /\ result.candidateTasks # <<>>
             /\ result.candidateTasks[1] = exact.id
             /\ TopRanked(findTaskSuggestions(input, store))
        ELSE result.taskAffected = exact.id

\* C19: a stored task whose status is 'completed' is, after any utterance on
\* any command path, either still stored with status 'completed' or no
\* longer stored; no command or reply gives it another status.
C19_CompletedStaysCompleted ==
  [][\A taskId \in 1..MaxId :
       (/\ HasTask(store, taskId)
        /\ getTaskById(store, taskId).status = "completed"
        /\ HasTask(store', taskId))
       => getTaskById(store', taskId).status = "completed"]_vars

\* a completed task has been given a new title and is still completed
C19_Witness ==
  /\ input = U_yes
  /\ result.success
  /\ result.action = "modify"
  /\ \E i \in 1..Len(store) :
        store[i].title = <<W_Buy, W_milk>> /\ store[i].status = "completed"

\* the utterances that are commands when nothing is pending
CommandUtterances ==
  {U_addMeeting, U_deleteBuyGroceries, U_deleteMeeting, U_deleteItems,
   U_completeMeeting, U_changeMeeting}

\* the session's path waits for a reply
PendingState ==
  \/ PendingType # "none"
  \/ engine = "SmartTaskAssistant" /\ pendingDisambiguation.action.type # "none"

\* after the step nothing is pending for a task that was not pending before:
\* a slot is as it was or empty, or holds the action of the pending
\* disambiguation for one of its candidates
NoOtherPendingAction ==
  /\ smartConfirmation' \in {smartConfirmation, NoConfirmation}
  /\ hybridConfirmation' \in {hybridConfirmation, NoConfirmation}
  /\ exactConfirmation' \in {exactConfirmation, NoConfirmation}
  /\ pendingDisambiguation' \in {pendingDisambiguation, NoDisambiguation}
  /\ \/ pendingConfirmation' \in {pendingConfirmation, NoPendingAction}
     \/ /\ pendingDisambiguation.action.type # "none"
        /\ pendingConfirmation'.type = pendingDisambiguation.action.type
        /\ \E i \in 1..Len(pendingDisambiguation.candidates) :
              pendingConfirmation'.taskId =
                pendingDisambiguation.candidates[i].task.id

\* C20: while a confirmation or a disambiguation is pending, an utterance
\* that would be a command (add, delete, complete, modify) is not carried out
\* as one: the step creates no task, changes and removes no task, and leaves
\* no pending action for a task that was not pending before.
C20_PendingUtteranceIsNoCommand ==
  [][(/\ PendingState
      /\ input' \in CommandUtterances
      /\ SlotEngineCall(input'))
     => /\ store' = store
        /\ nextId' = nextId
        /\ NoOtherPendingAction]_vars

\* ------------------------------------------------------------ input errors
\* C21: an utterance that is empty after trimming returns success=false and
\* changes neither the store nor the pending confirmation nor the pending
\* disambiguation, whether SmartTaskAssistant is idle, awaits a confirmation
\* or awaits a disambiguation.
C21_EmptyUtteranceChangesNothing ==
  [][(IsEmpty(trim(input')) /\ ProcessCommand(input'))
     => /\ ~result'.success
        /\ store' = store
        /\ pendingConfirmation' = pendingConfirmation
        /\ pendingDisambiguation' = pendingDisambiguation]_vars

\* the sentences that say that there is no task
NoTasksMessages ==
  {"no task of that number, you have 0 tasks", "no match, no available tasks"}

\* C22: with an empty store 'mark task number 1 as done' returns a failure
\* whose message says that there are no tasks; with a store that is not
\* empty, a failure to find the task it refers to has another message.
C22_NoTasksIsToldApart ==
  (input = U_markTaskNumber1AsDone)
  => /\ (store = <<>>)
        => ~result.success /\ result.message \in NoTasksMessages
     /\ (store # <<>> /\ ~result.success)
        => result.message \notin NoTasksMessages

\* ------------------------------------------------------- tasks by number
\* 'mark task number N' and 'mark task number N as done'
MarkByNumber ==
  { U_markTaskNumber1, U_markTaskNumber2, U_markTaskNumber1AsDone,
    U_markTaskNumber2AsDone }

\* the N of such a command
NumberSaid(u) == parseInt(u[4])

\* the list the numbers refer to: SmartCommandProcessor numbers the tasks that
\* are not completed, VoiceCommandProcessor the stored tasks
ListedTasks ==
  IF engine = "SmartCommandProcessor" THEN NotCompleted(store) ELSE store

\* C23: 'mark task number N' and 'mark task number N as done', with N at most
\* the number of listed tasks and nothing pending, both resolve to the N-th
\* listed task: VoiceCommandProcessor leaves it completed, and
\* SmartCommandProcessor asks to confirm its completion and completes it on
\* the 'yes' that follows.
C23_MarkTaskNumberCompletesNth ==
  [][/\ (/\ input' \in MarkByNumber
         /\ smartConfirmation.action = "none"
         /\ NumberSaid(input') \in 1..Len(ListedTasks)
         /\ (SmartCommand(input') \/ VoiceCommand(input')))
        => LET target == ListedTasks[NumberSaid(input')]
           IN IF engine = "VoiceCommandProcessor"
              THEN /\ HasTask(store', target.id)
                   /\ getTaskById(store', target.id).status = "completed"
              ELSE /\ smartConfirmation' = Confirmation(target.id, "complete")
                   /\ store' = store
     /\ (/\ input \in MarkByNumber
         /\ smartConfirmation.action = "complete"
         /\ HasTask(store, smartConfirmation.taskId)
         /\ SmartCommand(U_yes))
        => /\ getTaskById(store', smartConfirmation.taskId).status
                = "completed"
           /\ smartConfirmation' = NoConfirmation]_vars

\* ------------------------------------- VoiceCommandProcessor.parseCommand
\* the words a mark command and a delete command are recognised by and
\* stripped of, and the filler words
MarkWords == {W_mark, W_complete, W_finish, W_done, W_as, W_task, W_tasks}
DeleteWords == {W_delete, W_remove, W_cancel, W_task, W_tasks}
FillerWords == {W_please, W_the, W_a, W_an}

IsMarkCommand(u) ==
  \E i \in 1..Len(u) : LowerWord(u[i]) \in {W_mark, W_complete, W_finish, W_done}

IsDeleteCommand(u) ==
  /\ ~IsMarkCommand(u)
  /\ \E i \in 1..Len(u) : LowerWord(u[i]) \in {W_delete, W_remove, W_cancel}

\* the words left of a mark or delete command without action and filler words
TextLeft(u) ==
  LET Kept(w) ==
        w \notin FillerWords
               \cup (IF IsMarkCommand(u) THEN MarkWords ELSE DeleteWords)
  IN SelectSeq(toLowerCase(u), Kept)

OrdinalWords ==
  {W_first, W_second, W_third, W_fourth, W_fifth, W_sixth, W_seventh,
   W_eighth, W_ninth, W_tenth}

\* the word has a digit somewhere
HoldsDigits(w) == \E i \in 1..Len(w) : w[i] \in Digits

\* the word is a digit string, with st, nd, rd or th behind it or nothing
WholeNumber(w) ==
  \E k \in 1..Len(w) :
     /\ \A i \in 1..k : w[i] \in Digits
     /\ SubSeq(w, k + 1, Len(w))
          \in {<<>>, <<"s","t">>, <<"n","d">>, <<"r","d">>, <<"t","h">>}

\* what parseCommand returns for the utterance just processed is of the type
\* the text left calls for, Numbered(w) telling the words that make a number
TargetTypeFollowsText(Numbered(_)) ==
  (/\ engine = "VoiceCommandProcessor"
   /\ (IsMarkCommand(input) \/ IsDeleteCommand(input)))
  => LET parsed == parseCommand(input)
         text == TextLeft(input)
     IN IF \E i \in 1..Len(text) :
              Numbered(text[i]) \/ text[i] \in OrdinalWords
        THEN parsed.targetType = "number" /\ parsed.target \in 0..10
        ELSE IF text = <<>> THEN parsed.targetType = "generic"
        ELSE parsed.targetType = "name" /\ Len(parsed.target) >= 0

\* C24 as stated: for a mark or delete command targetType is 'number', with a
\* numeric target, when the text left after removing action and filler words
\* contains a digit string or an ordinal word first..tenth, 'generic' when
\* that text is empty, and 'name', with a string target, otherwise.
C24_DigitsAnywhereMakeNumber == TargetTypeFollowsText(HoldsDigits)

\* C24, amended: targetType is 'number' when the text left contains a digit
\* string that stands as a word of its own, alone or followed by st, nd, rd
\* or th, or an ordinal word first..tenth; 'generic' when that text is empty;
\* 'name', with a string target, otherwise.
C24_TargetTypeOfMarkAndDelete == TargetTypeFollowsText(WholeNumber)

\* 'delete second task' has been taken as task number 2 and carried out
C24_Witness ==
  /\ engine = "VoiceCommandProcessor"
  /\ input = U_deleteSecondTask
  /\ parseCommand(input).targetType = "number"
  /\ result.message = "deleted"
  /\ result.taskAffected = 2

\* ---------------------------------------------- the commands of the guide
CompletionVerbs == {W_mark, W_complete, W_finish}
DeletionVerbs == {W_delete, W_remove}

\* C25: in SmartTaskAssistant a command that starts with a completion verb
\* (mark, complete, finish) or a deletion verb (delete, remove) is never
\* classified as add and never creates a task, also when the word 'task' is
\* in it.
C25_VerbCommandsNeverAdd ==
  [][(/\ input' # <<>>
      /\ LowerWord(input'[1]) \in CompletionVerbs \cup DeletionVerbs
      /\ ProcessCommand(input'))
     => /\ detectIntent(input').type # "add"
        /\ result'.action # "add"
        /\ Len(store') <= Len(store)
        /\ nextId' = nextId]_vars

\* ------------------------------------------------------------------- list
\* the tasks that are not completed, in store order
OpenTasks == SelectSeq(store, LAMBDA t : t.status # "completed")

\* what the list command returns when the store is empty
ListOfEmptyStore == Result(TRUE, "no pending tasks", "list", 0)

\* C26: with nothing pending, the list command returns the tasks that are not
\* completed, at most 5 of them, numbered in store order, changes neither the
\* store nor the pending confirmation, and for a store that is not empty but
\* holds completed tasks only its result differs from the result for the
\* empty store.
C26_ListShowsOpenTasks ==
  [][(smartConfirmation.action = "none" /\ SmartCommand(U_showMyTasks))
     => /\ result'.action = "list"
        /\ Len(result'.candidateTasks) <= 5
        /\ result'.candidateTasks
             = [i \in 1..Len(result'.candidateTasks) |-> OpenTasks[i].id]
        /\ Len(OpenTasks) <= 5
             => Len(result'.candidateTasks) = Len(OpenTasks)
        /\ store' = store
        /\ smartConfirmation' = smartConfirmation
        /\ store # <<>> => result' # ListOfEmptyStore]_vars

\* ----------------------------------------------------------------- modify
\* the position of the stored task with this id
PositionOf(taskId) == CHOOSE i \in 1..Len(store) : store[i].id = taskId

\* C27: when a pending modify is confirmed with an affirmative reply and its
\* newContent is not empty, the pending task gets newContent as its title
\* and keeps its id, status, priority, tags and position, and every other
\* task is as it was; when newContent is empty no title changes; no step of
\* SmartTaskAssistant with a modify pending leaves a stored title empty that
\* was not empty before.
C27_ModifyChangesTitleOnly ==
  [][(/\ pendingConfirmation.type = "modify"
      /\ HasTask(store, pendingConfirmation.taskId)
      /\ ConfirmationReply(input'))
     => /\ isYes(trim(toLowerCase(input')))
           => store' =
                IF pendingConfirmation.newContent # <<>>
                THEN [store EXCEPT
                        ![PositionOf(pendingConfirmation.taskId)].title =
                           pendingConfirmation.newContent]
                ELSE store
        /\ Len(store') = Len(store)
        /\ \A i \in 1..Len(store) :
              IsEmpty(store'[i].title) => IsEmpty(store[i].title)]_vars

\* the second of two tasks has been given its new title by a confirmed modify
C27_Witness ==
  /\ input = U_yes
  /\ result.action = "modify"
  /\ Len(store) >= 2
  /\ store[2].title = <<W_Buy, W_milk>>
  /\ store[1].title # <<W_Buy, W_milk>>

\* ------------------------------------------- the remote call of GeminiService
\* the ways the request of parseVoiceCommand fails: fetch rejects, the status
\* is not OK, the body has no candidates, the candidate has no text, the text
\* has no {...}, JSON.parse throws
GeminiFailures ==
  { "network error", "status not OK", "no candidates", "missing text",
    "no JSON in the reply", "malformed JSON" }

\* a reply of the remote call: a failure, or the object JSON.parse returns
GeminiReply(failure, parsed) == [failure |-> failure, parsed |-> parsed]

\* the objects a reply can hold: any type, a title or none, a priority or none
GeminiObjects ==
  { TaskCommand(type, title, priority) :
      type \in {"task", "complete", "unknown"},
      title \in {<<>>, <<W_Buy, W_milk>>},
      priority \in {"urgent", "none"} }

GeminiReplies ==
  { GeminiReply(failure, TaskCommand("unknown", <<>>, "none")) :
      failure \in GeminiFailures }
    \cup { GeminiReply("none", parsed) : parsed \in GeminiObjects }

\* how the promise of a call settles, and with what
Settled(reply, how, command) ==
  [reply |-> reply, settled |-> how, command |-> command]

\* GeminiService.parseVoiceCommand(transcript), the remote call answering
\* reply: every throw is inside the try block, and the catch block returns
\* the fallback parse
parseVoiceCommandGiven(transcript, reply) ==
  IF reply.failure # "none"
  THEN Settled(reply.failure, "resolved", fallbackParse(transcript))
  ELSE Settled(reply.failure, "resolved", reply.parsed)

\* the transcripts of the calls
GeminiTranscripts ==
  { U_empty, <<<<>>, <<>>>>, <<W_add, W_task>>, U_addTaskBlank,
    <<W_remind, W_me, W_to>>, <<W_schedule, W_Meeting, W_with>>,
    <<W_add, W_task, W_Buy, W_milk, W_urgent>>,
    <<W_remind, W_me, W_to, W_buy, W_groceries, W_later>>,
    <<W_Meeting, W_with, W_Arjun, W_asap>>, U_changeMeeting,
    U_deleteBuyGroceries, U_completeMeeting,
    <<W_add, W_note, W_important>>, <<W_low>>, <<W_high, W_to, W_me>> }

InitGemini ==
  /\ store \in InitialStores
  /\ nextId = Len(store) + 1
  /\ pendingConfirmation = NoPendingAction
  /\ pendingDisambiguation = NoDisambiguation
  /\ smartConfirmation = NoConfirmation
  /\ hybridConfirmation = NoConfirmation
  /\ exactConfirmation = NoConfirmation
  /\ promises = <<>>
  /\ voice = IdleVoice
  /\ engine = "GeminiService"
  /\ input = <<>>
  /\ result = NoResponse

\* a call of GeminiService.parseVoiceCommand
ParseVoiceCommand(transcript, reply) ==
  /\ input' = transcript
  /\ result' = parseVoiceCommandGiven(transcript, reply)
  /\ UNCHANGED <<store, nextId, pendingConfirmation, pendingDisambiguation, smartConfirmation, hybridConfirmation, exactConfirmation, engine, promises, voice>>

NextGemini ==
  \E transcript \in GeminiTranscripts, reply \in GeminiReplies :
     ParseVoiceCommand(transcript, reply)

SpecGemini == InitGemini /\ [][NextGemini]_vars

\* C28: a call of GeminiService.parseVoiceCommand never rejects; when the
\* remote call fails (network error, status not OK, missing text, no JSON,
\* malformed JSON) the call resolves to fallbackParse of the same transcript,
\* whose title is not empty and whose priority is urgent, high, medium or low.
C28_FailureResolvesToFallback ==
  result # NoResponse
    => /\ result.settled = "resolved"
       /\ result.reply \in GeminiFailures
            => /\ result.command = fallbackParse(input)
               /\ ~IsEmpty(result.command.title)
               /\ result.command.priority
                    \in {"urgent", "high", "medium", "low"}

\* the remote call has failed on a transcript of removable words only, and
\* the call has resolved to the task titled 'New task'
C28_Witness ==
  /\ input = <<W_remind, W_me, W_to>>
  /\ result # NoResponse
  /\ result.reply = "malformed JSON"
  /\ result.settled = "resolved"
  /\ result.command = TaskCommand("reminder", <<W_New, W_task>>, "medium")

\* ------------------------------------------------------------ exact titles
\* the title is the text, letter case apart
SameTitle(task, text) ==
  text # NoMatch /\ Chars(toLowerCase(task.title)) = Chars(toLowerCase(text))

\* the tasks of the store that are no longer stored after the step
RemovedTasks == {t \in Range(store) : ~HasTask(store', t.id)}

\* the tasks of the store that the step has completed
NewlyCompleted ==
  {t \in Range(store) :
     /\ HasTask(store', t.id)
     /\ t.status # "completed"
     /\ getTaskById(store', t.id).status = "completed"}

\* C29: in a call of ExactVoiceProcessor a task is completed only if its
\* title is the task text of the complete command, letter case apart; a task
\* is proposed for deletion only if its title is the task text of the delete
\* command, letter case apart; a task is deleted only if it is the task of
\* the pending confirmation; and a call that goes to processExactCommand
\* (nothing pending) deletes no task.
C29_OnlyExactTitlesAreTouched ==
  [][(engine = "ExactVoiceProcessor" /\ ExactVoiceCommand(input'))
     => /\ \A t \in NewlyCompleted :
             /\ exactConfirmation = NoConfirmation
             /\ SameTitle(t, trim(extractCompleteCommand(trim(input'))))
        /\ (exactConfirmation' # NoConfirmation
              /\ exactConfirmation' # exactConfirmation)
             => /\ exactConfirmation = NoConfirmation
                /\ HasTask(store, exactConfirmation'.taskId)
                /\ SameTitle(getTaskById(store, exactConfirmation'.taskId),
                             trim(extractDeleteCommand(trim(input'))))
        /\ \A t \in RemovedTasks : exactConfirmation.taskId = t.id
        /\ exactConfirmation = NoConfirmation => RemovedTasks = {}]_vars

\* 'complete meeting' has completed the task titled 'meeting' and has left
\* pending a task whose title contains the word
C29_Witness ==
  /\ engine = "ExactVoiceProcessor"
  /\ input = U_completeMeeting
  /\ result.success
  /\ \E i \in 1..Len(store) :
        store[i].title = U_meeting /\ store[i].status = "completed"
  /\ \E i \in 1..Len(store) :
        store[i].title = T_TeamMeetingPrep /\ store[i].status = "pending"

\* ------------------------------------------------------ clearing what pends
\* clearPendingState() / clearPendingConfirmation() of the session's path
ClearCall == AssistantClear \/ SmartClear \/ HybridClear \/ ExactVoiceClear

\* the reply resolves what is pending: a yes, a no, or the choice of one
\* candidate of the pending disambiguation
ResolvingReply(u) ==
  \/ AffirmativeReply(u)
  \/ NegativeReply(u)
  \/ /\ engine = "SmartTaskAssistant"
     /\ pendingConfirmation.type = "none"
     /\ pendingDisambiguation.action.type # "none"
     /\ InRangeNumber(u) \/ Len(TextMatches(u)) = 1

\* C30: a call of clearPendingState / clearPendingConfirmation leaves nothing
\* pending and the store as it was; with nothing pending the next utterance
\* is parsed as a new command (a yes or a no carries nothing out, and
\* SmartTaskAssistant returns what parseAndExecuteCommand returns); and an
\* utterance that is no resolving reply leaves what is pending as it was.
C30_PendingLastsUntilClearedOrResolved ==
  [][/\ ClearCall => (~PendingState' /\ store' = store)
     /\ (~PendingState /\ SlotEngineCall(input'))
          => /\ engine = "SmartTaskAssistant"
                  => Becomes(parseAndExecuteCommand(input'))
             /\ (AffirmativeReply(trim(input')) \/ NegativeReply(trim(input')))
                  => (store' = store /\ ~PendingState')
     /\ (/\ PendingState
         /\ SlotEngineCall(input')
         /\ ~ResolvingReply(trim(input')))
          => /\ pendingConfirmation' = pendingConfirmation
             /\ pendingDisambiguation' = pendingDisambiguation
             /\ smartConfirmation' = smartConfirmation
             /\ hybridConfirmation' = hybridConfirmation
             /\ exactConfirmation' = exactConfirmation]_vars

\* ------------------------------------------------- what a suggestion needs
\* the tasks findTaskSuggestions has returned
SuggestedNow ==
  {t \in Range(store) :
     \E i \in 1..Len(result.candidateTasks) : result.candidateTasks[i] = t.id}

\* the lower-cased title equals the query or one contains the other
SubstringRelated(query, title) ==
  includes(toLowerCase(title), toLowerCase(query))
    \/ includes(toLowerCase(query), toLowerCase(title))

\* the two share a word delimited by blanks
SharesWord(query, title) ==
  Range(split(toLowerCase(query))) \cap Range(split(toLowerCase(title))) # {}

\* the characters of the query found in the title are at least three
\* quarters of the length of the longer of the two
SharesCharacters(query, title) ==
  LET c1 == Chars(toLowerCase(query))
      c2 == Chars(toLowerCase(title))
      overlap == Cardinality({i \in 1..Len(c1) : c1[i] \in Range(c2)})
  IN 4 * overlap >= 3 * Max(Len(c1), Len(c2))

\* C31 as stated: findTaskSuggestions returns a task only if its lower-cased
\* title equals the query, one contains the other, or the two share a word;
\* a title that shares no word with the query and is not substring-related
\* is never returned.
C31_NoWordNoSuggestion ==
  (result.message = "findTaskSuggestions")
    => \A t \in SuggestedNow :
          SubstringRelated(input, t.title) \/ SharesWord(input, t.title)

\* C31, amended: findTaskSuggestions returns a task only if its lower-cased
\* title equals the query, one contains the other, the two share a word, or
\* at least three quarters of the characters (by the longer length) of the
\* query occur in the title; every returned task has a similarity above the
\* threshold 0.3 as the code computes it.
C31_SuggestionsAreRelated ==
  (result.message = "findTaskSuggestions")
    => \A t \in SuggestedNow :
          /\ \/ SubstringRelated(input, t.title)
             \/ SharesWord(input, t.title)
             \/ SharesCharacters(input, t.title)
          /\ LET sim == calculateSimilarity(toLowerCase(input),
                                            toLowerCase(t.title))
             IN 10 * sim.n >= 3 * sim.d

\* 'grocery shopping' has returned 'Buy groceries', with which it shares no
\* word
C31_Witness ==
  /\ result.message = "findTaskSuggestions"
  /\ input = U_groceryShopping
  /\ \E t \in SuggestedNow :
        t.title = T_BuyGroceries /\ ~SharesWord(input, t.title)

\* ------------------------------------------------ the intent parser on its own
W_old == <<"o","l","d">>
W_files == <<"f","i","l","e","s">>
U_deleteWhatTasks == <<W_delete, W_what, W_tasks>>
U_addNewTask == <<W_add, W_new, W_task>>
U_addDeleteOldFiles == <<W_add, W_delete, W_old, W_files>>
U_addOldFiles == <<W_add, W_old, W_files>>

\* the confidence of one action with the alternatives of the recogniser, in
\* thousandths: 0.2 more when a primary keyword is in more than one of the
\* input and its alternatives
ConfidenceWith(inputText, alternatives, config) ==
  LET allInputs == <<inputText>> \o alternatives
      alternativeMatches ==
        Cardinality({i \in 1..Len(allInputs) :
                       Found(Chars(toLowerCase(allInputs[i])),
                             config.primary) > 0})
  IN Confidence(Chars(toLowerCase(inputText)), config)
       + (IF alternativeMatches > 1 THEN 200 ELSE 0)

\* the bestMatch of parseIntentWithContext after the loop over the actions:
\* an action replaces the best one only with a greater confidence
RECURSIVE BestMatch(_, _, _, _)
BestMatch(inputText, alternatives, k, best) ==
  IF k > Len(actionKeywords) THEN best
  ELSE LET confidence ==
             ConfidenceWith(inputText, alternatives, actionKeywords[k])
       IN BestMatch(inputText, alternatives, k + 1,
                    IF confidence > best.confidence
                    THEN [action |-> actionKeywords[k].action,
                          confidence |-> confidence]
                    ELSE best)

\* SmartCommandProcessor.parseIntentWithContext(input, alternatives): action,
\* content and confidence of the ParsedIntent
parseIntentWithAlternatives(inputText, alternatives) ==
  LET Parsed(bestMatch) ==
        [action |-> bestMatch.action, content |-> extractContent(inputText),
         confidence |-> bestMatch.confidence, alternatives |-> alternatives]
  IN Parsed(BestMatch(inputText, alternatives, 1,
                      [action |-> "unknown", confidence |-> 0]))

\* what is said to the parser, and what the recogniser heard beside it
IntentUtterances ==
  { U_deleteWhatTasks, U_addNewTask, U_addDeleteOldFiles, U_addOldFiles,
    U_addMeeting, U_deleteBuyGroceries, U_completeMeeting, U_changeMeeting,
    U_showMyTasks, U_markTaskNumber1AsDone, U_yes, U_meeting }

IntentAlternatives ==
  { <<>>, <<U_addMeeting>>, <<U_deleteBuyGroceries, U_showMyTasks>>,
    <<U_meeting>> }

InitIntents ==
  /\ store \in InitialStores
  /\ nextId = Len(store) + 1
  /\ pendingConfirmation = NoPendingAction
  /\ pendingDisambiguation = NoDisambiguation
  /\ smartConfirmation = NoConfirmation
  /\ hybridConfirmation = NoConfirmation
  /\ exactConfirmation = NoConfirmation
  /\ promises = <<>>
  /\ voice = IdleVoice
  /\ engine = "SmartCommandProcessor"
  /\ input = <<>>
  /\ result = NoResponse

\* a call of parseIntentWithContext
ParseIntentWithContext(inputText, alternatives) ==
  /\ input' = inputText
  /\ result' = parseIntentWithAlternatives(inputText, alternatives)
  /\ UNCHANGED <<store, nextId, pendingConfirmation, pendingDisambiguation, smartConfirmation, hybridConfirmation, exactConfirmation, engine, promises, voice>>

NextIntents ==
  \E inputText \in IntentUtterances, alternatives \in IntentAlternatives :
     ParseIntentWithContext(inputText, alternatives)

SpecIntents == InitIntents /\ [][NextIntents]_vars

\* the confidence of the k-th action for the call that has just returned
ScoreOf(k) == ConfidenceWith(input, result.alternatives, actionKeywords[k])

\* the actions of the highest confidence
TopActions ==
  {k \in 1..Len(actionKeywords) :
     \A j \in 1..Len(actionKeywords) : ScoreOf(j) <= ScoreOf(k)}

\* C32: parseIntentWithContext selects the action whose accumulated score is
\* strictly the highest, and returns 'unknown' whenever two or more actions
\* tie for the highest score.
C32_TiesAreUnknown ==
  result # NoResponse
    => IF Cardinality(TopActions) = 1
       THEN \A k \in TopActions : result.action = actionKeywords[k].action
       ELSE result.action = "unknown"

\* C33: the confidence of the ParsedIntent lies in [0,1], in thousandths
\* between 0 and 1000, for every utterance and every list of alternatives.
C33_ConfidenceWithinUnit ==
  result # NoResponse => (result.confidence >= 0 /\ result.confidence <= 1000)

\* the text after the first removePattern that matches has been applied, the
\* trailing courtesy removed and a quoted part taken
FirstPatternOnly(s) ==
  LET matching == {k \in 1..6 : RemovePattern(k, s) # s}
      stripped == IF matching = {} THEN s
                  ELSE RemovePattern(Leftmost(matching), s)
      content == RemoveTrailing(stripped)
  IN trim(IF QuotedMatch(content) # NoMatch THEN QuotedMatch(content)
          ELSE content)

\* C34: extractContent applies only the first stripping pattern that
\* matches: the text after the matched action phrase is kept as it is, also
\* when it begins with another action word ('add delete old files' has the
\* content 'delete old files').
C34_OnePhraseIsStripped ==
  result # NoResponse => result.content = FirstPatternOnly(input)

\* ------------------------------------------------ replies to a confirmation
U_right == <<W_right>>
U_back == <<W_back>>
U_yesDeleteIt == <<W_yesComma, W_delete, W_it>>
U_noDont == <<W_no, W_don_t>>
U_dontDeleteIt == <<W_don_t, W_delete, W_it>>
U_cancelThat == <<W_cancel, W_that>>
U_goAheadPlease == <<W_go, W_ahead, W_please>>

\* what is said to SmartCommandProcessor: commands that set a confirmation
\* and replies to it
ReplyUtterances ==
  { U_deleteBuyGroceries, U_completeMeeting, U_deleteMeeting, U_yes, U_no,
    U_cancel, <<W_delete>>, U_right, U_back, U_yesDeleteIt, U_noDont,
    U_dontDeleteIt, U_cancelThat, U_goAheadPlease, U_deleteItems, U_maybe }

InitReplies == InitIntents

NextReplies == (\E u \in ReplyUtterances : SmartCommand(u)) \/ SmartClear

SpecReplies == InitReplies /\ [][NextReplies]_vars

\* the exact lists of isAffirmativeResponse and isNegativeResponse
AffirmativeLexemes ==
  {<<W_yes>>, <<W_y>>, <<W_yeah>>, <<W_yep>>, <<W_yup>>, <<W_sure>>,
   <<W_ok>>, <<W_okay>>, <<W_confirm>>, <<W_delete>>, <<W_do, W_it>>,
   <<W_go, W_ahead>>, <<W_proceed>>, <<W_right>>, <<W_correct>>,
   <<W_affirmative>>}

NegativeLexemes ==
  {<<W_no>>, <<W_n>>, <<W_nope>>, <<W_cancel>>, <<W_stop>>, <<W_abort>>,
   <<W_nevermind>>, <<W_never, W_mind>>, <<W_don_t>>, <<W_dont>>, <<W_wait>>,
   <<W_back>>, <<W_negative>>}

\* the reply as handleConfirmationResponse reads it
LowerReply == trim(toLowerCase(input'))

\* C35: in SmartCommandProcessor no reply to a pending confirmation is
\* classified as both affirmative and negative; a reply that is exactly a
\* lexeme of the affirmative list is handled as a yes (the pending action is
\* carried out) and one that is exactly a lexeme of the negative list as a
\* no (the action is cancelled); and the result and the next state are those
\* that processCommand computes from the reply and the state before.
C35_RepliesAreClassifiedOneWay ==
  [][(smartConfirmation # NoConfirmation /\ SmartCommand(input'))
     => /\ ~(isAffirmativeResponse(LowerReply) /\ isNegativeResponse(LowerReply))
        /\ LowerReply \in AffirmativeLexemes
             => /\ isAffirmativeResponse(LowerReply)
                /\ result'.message \in {"deleted", "completed"}
                /\ smartConfirmation' = NoConfirmation
        /\ LowerReply \in NegativeLexemes
             => /\ isNegativeResponse(LowerReply)
                /\ result'.message = "cancelled"
                /\ store' = store
                /\ smartConfirmation' = NoConfirmation
        /\ LET e == Smart_processCommand(input')
           IN /\ store' = e.store
              /\ smartConfirmation' = e.confirmation
              /\ result' = e.result]_vars

\* "don't delete it" has been taken as a no: the pending delete is cancelled
\* and the task is still stored
C35_Witness ==
  /\ engine = "SmartCommandProcessor"
  /\ input = U_dontDeleteIt
  /\ result.message = "cancelled"
  /\ smartConfirmation = NoConfirmation
  /\ store # <<>>

\* ------------------------------------------------ flags and what is pending
\* C36: after every call of SmartTaskAssistant.processCommand the result has
\* requiresConfirmation exactly when a confirmation is pending, and
\* requiresDisambiguation exactly when a disambiguation is pending.
C36_FlagsAgreeWithPending ==
  [][ProcessCommand(input')
     => /\ result'.requiresConfirmation
             <=> (pendingConfirmation'.type # "none")
        /\ result'.requiresDisambiguation
             <=> (pendingDisambiguation'.action.type # "none")]_vars

\* ----------------------------------------------- calls nobody has awaited
\* most processCommand promises in flight at a time
MaxPromises == 2

\* what is said in a session whose calls are not awaited
CallUtterances ==
  { U_deleteBuyGroceries, U_deleteMeeting, U_changeMeeting, U_yes,
    U_yesDeleteIt, U_no }

\* the promise of a call: the utterance, the response it resolves to, and
\* whether the call carried out the confirmation that was pending at its entry
Promise(u, response, carried) ==
  [input |-> u, result |-> response, carried |-> carried]

InitCalls ==
  /\ store \in InitialStores
  /\ nextId = Len(store) + 1
  /\ pendingConfirmation = NoPendingAction
  /\ pendingDisambiguation = NoDisambiguation
  /\ smartConfirmation = NoConfirmation
  /\ hybridConfirmation = NoConfirmation
  /\ exactConfirmation = NoConfirmation
  /\ promises = <<>>
  /\ voice = IdleVoice
  /\ engine \in {"SmartTaskAssistant", "SmartCommandProcessor"}
  /\ input = <<>>
  /\ result = NoResponse

\* SmartTaskAssistant.processCommand(u) called without await. The body of an
\* async function runs on the caller's stack up to its first suspension; every
\* await of the class is `return await handler(...)` on a handler without an
\* await of its own, so the whole effect of the call is in this one step and
\* only the delivery of the response is left to the promise.
SubmitCommand(u) ==
  /\ engine = "SmartTaskAssistant"
  /\ Len(promises) < MaxPromises
  /\ LET Call(o) ==
           /\ WithinBounds(o)
           /\ store' = o.store
           /\ nextId' = o.nextId
           /\ pendingConfirmation' = o.pendingConfirmation
           /\ pendingDisambiguation' = o.pendingDisambiguation
           /\ promises' =
                Append(promises,
                       Promise(u, o.result,
                               /\ pendingConfirmation.type # "none"
                               /\ o.store # store))
     IN Call(processCommand(u))
  /\ UNCHANGED <<smartConfirmation, hybridConfirmation, exactConfirmation, engine, input, result, voice>>

\* the oldest promise in flight resolves: its caller receives the response
SettleCommand ==
  /\ engine = "SmartTaskAssistant"
  /\ promises # <<>>
  /\ input' = Head(promises).input
  /\ result' = Head(promises).result
  /\ promises' = Tail(promises)
  /\ UNCHANGED <<store, nextId, pendingConfirmation, pendingDisambiguation, smartConfirmation, hybridConfirmation, exactConfirmation, engine, voice>>

NextCalls ==
  \/ \E u \in CallUtterances : SubmitCommand(u)
  \/ SettleCommand
  \/ \E u \in CallUtterances : SmartCommand(u)

SpecCalls == InitCalls /\ [][NextCalls]_vars

\* C37: a call that changes the task list while a confirmation is pending
\* leaves the slot empty, so that the confirmation it carried out is no longer
\* there for the next call, whether or not the first call's promise has been
\* awaited; and of two calls submitted back to back at most one has carried
\* out a pending confirmation.
C37_PendingActionRunsOnce ==
  /\ [][((\E u \in CallUtterances : SubmitCommand(u) \/ SmartCommand(u))
         /\ PendingType # "none" /\ store' # store)
        => PendingType' = "none"]_vars
  /\ [](\A i \in 1..(Len(promises) - 1) :
          ~(promises[i].carried /\ promises[i + 1].carried))

\* two 'yes' submitted back to back are both in flight: the first has deleted
\* the pending task, the second has found nothing pending
C37_Witness ==
  /\ engine = "SmartTaskAssistant"
  /\ Len(promises) = 2
  /\ promises[1].input = U_yes
  /\ promises[1].carried
  /\ promises[1].result.success
  /\ promises[2].input = U_yes
  /\ ~promises[2].carried
  /\ ~promises[2].result.success
  /\ pendingConfirmation = NoPendingAction

\* ------------------------------------------- the task board beside a prompt
\* what is said while the task cards are being edited
BoardUtterances == {U_deleteBuyGroceries, U_deleteMeeting, U_yes, U_no}

\* the titles typed into a new task card
BoardTitles == {T_BuyMilk, T_Meeting}

\* useEditableTasks.saveTask(taskId, newTitle) on a new card: the task is
\* added to the store with tags ["voice"]
CardSave(title) ==
  /\ Len(store) < MaxTasks
  /\ nextId <= MaxId
  /\ store' = addTask(store, Task(nextId, title, "pending", "medium",
                                  <<"voice">>))
  /\ nextId' = nextId + 1
  /\ UNCHANGED <<pendingConfirmation, pendingDisambiguation, smartConfirmation, hybridConfirmation, exactConfirmation, engine, promises, voice, input, result>>

\* useEditableTasks.markTaskDone(taskId) on a saved task
CardMarkDone(taskId) ==
  /\ HasTask(store, taskId)
  /\ getTaskById(store, taskId).status # "completed"
  /\ store' = updateTaskStatus(store, taskId, "completed")
  /\ UNCHANGED <<nextId, pendingConfirmation, pendingDisambiguation, smartConfirmation, hybridConfirmation, exactConfirmation, engine, promises, voice, input, result>>

NextBoard ==
  \/ \E u \in BoardUtterances : AssistantCommand(u)
  \/ \E taskId \in 1..MaxId : CardDelete(taskId)
  \/ \E title \in BoardTitles : CardSave(title)
  \/ \E taskId \in 1..MaxId : CardMarkDone(taskId)

SpecBoard == Init /\ [][NextBoard]_vars

\* C38: a yes to a pending delete of SmartTaskAssistant leaves in the store
\* exactly the tasks whose id is not the one recorded in the slot, each as it
\* was and in the order they had; and what is done on the task cards between
\* the prompt and the reply (a task added, marked done or deleted) does not
\* change the recorded id.
C38_ConfirmedDeleteRemovesRecordedTask ==
  [][/\ (/\ ConfirmationReply(input')
         /\ pendingConfirmation.type = "delete"
         /\ isYes(trim(toLowerCase(input'))))
        => (/\ \A t \in Range(store) :
                 t.id # pendingConfirmation.taskId => t \in Range(store')
            /\ \A t \in Range(store') :
                 t \in Range(store) /\ t.id # pendingConfirmation.taskId
            /\ \A i, j \in 1..Len(store') :
                 i < j => PositionOf(store'[i].id)
                            < PositionOf(store'[j].id)
            /\ nextId' = nextId)
     /\ ((\E taskId \in 1..MaxId : CardDelete(taskId) \/ CardMarkDone(taskId))
         \/ (\E title \in BoardTitles : CardSave(title)))
        => pendingConfirmation' = pendingConfirmation]_vars

\* 'delete Buy groceries' was confirmed after a task had been added in front
\* of it and marked done: the recorded task is gone, the added and completed
\* one is there
C38_Witness ==
  /\ input = U_yes
  /\ result.success
  /\ result.action = "delete"
  /\ Len(store) >= 1
  /\ \E i \in 1..Len(store) : store[i].tags = <<"voice">>
  /\ \E i \in 1..Len(store) : store[i].status = "completed"
  /\ \A i \in 1..Len(store) : store[i].title # T_BuyGroceries

\* ------------------------------------------------- writes that do not land
\* StorageService.saveTasks(tasks): what localStorage holds after the call.
\* setItem throws when the quota is exceeded or storage is disabled; the catch
\* block logs the error and the stored list stays as it was.
saveTasks(stored, tasks, written) == IF written THEN tasks ELSE stored

\* what is said in a session whose storage may refuse a write
StorageUtterances ==
  { U_addMeeting, U_deleteBuyGroceries, U_completeMeeting, U_changeMeeting,
    U_yes, U_1 }

\* await SmartTaskAssistant.processCommand(u) with localStorage accepting the
\* write of saveTasks or not. A call saves at most once, and addTask,
\* updateTask and deleteTask compute what they return before saveTasks and
\* without looking at its outcome.
AssistantCommandSaved(u, written) ==
  /\ engine = "SmartTaskAssistant"
  /\ input' = u
  /\ LET Call(o) ==
           /\ WithinBounds(o)
           /\ written \/ o.store # store
           /\ store' = saveTasks(store, o.store, written)
           /\ nextId' = o.nextId
           /\ pendingConfirmation' = o.pendingConfirmation
           /\ pendingDisambiguation' = o.pendingDisambiguation
           /\ result' = o.result
     IN Call(processCommand(u))
  /\ UNCHANGED <<smartConfirmation, hybridConfirmation, exactConfirmation, engine, promises, voice>>

NextStorage ==
  \E u \in StorageUtterances, written \in BOOLEAN :
    AssistantCommandSaved(u, written)

SpecStorage == Init /\ [][NextStorage]_vars

\* the store after the call shows what the response says was done
StoreReflectsResult ==
  /\ result'.action = "add" =>
       \E i \in 1..Len(store') : store'[i].id = result'.taskAffected
  /\ result'.action = "complete" =>
       /\ HasTask(store', result'.taskAffected)
       /\ getTaskById(store', result'.taskAffected).status = "completed"
  /\ result'.action = "delete" => ~HasTask(store', pendingConfirmation.taskId)
  /\ result'.action = "modify" =>
       /\ HasTask(store', pendingConfirmation.taskId)
       /\ getTaskById(store', pendingConfirmation.taskId).title
            = pendingConfirmation.newContent

\* C39: whenever SmartTaskAssistant returns success for add, complete, delete
\* or modify, the task list read back from storage has the added task, shows
\* the task completed, no longer has the deleted task, or shows the new
\* title, whether or not localStorage accepted the write.
C39_SuccessMeansStored ==
  [][(/\ \E written \in BOOLEAN : AssistantCommandSaved(input', written)
      /\ result'.success
      /\ result'.action \in {"add", "complete", "delete", "modify"})
     => StoreReflectsResult]_vars

\* ------------------------------------------------------------ VoiceService
\* most startListening calls of a session of the page
MaxSessions == 6

\* VoiceService.startListening(options) and EnhancedVoiceService.startListening
\* (options), the call numbered voice.calls + 1. recognition.start() throws
\* InvalidStateError when the recognizer has been started and has fired
\* neither end nor error since; after an error event and before the end event
\* that follows it browsers differ, hence startAccepted.
startListening(v, startAccepted) ==
  LET call == v.calls + 1
  IN IF v.recognizer = "none"
     THEN [v EXCEPT !.calls = call, !.returned = "false"]
     ELSE IF v.isListening
     THEN [v EXCEPT !.calls = call, !.returned = "false",
                    !.recognizer = IF @ = "running" THEN "stopping" ELSE @]
     ELSE IF v.recognizer = "idle" \/ (v.recognizer = "failed" /\ startAccepted)
     THEN [v EXCEPT !.calls = call, !.returned = "true", !.options = call,
                    !.session = call, !.recognizer = "starting"]
     ELSE [v EXCEPT !.calls = call, !.returned = "false", !.options = call]

\* VoiceService.stopListening()
stopListening(v) ==
  IF v.recognizer # "none" /\ v.isListening /\ v.recognizer = "running"
  THEN [v EXCEPT !.recognizer = "stopping"]
  ELSE v

InitVoice ==
  /\ store = <<>>
  /\ nextId = 1
  /\ pendingConfirmation = NoPendingAction
  /\ pendingDisambiguation = NoDisambiguation
  /\ smartConfirmation = NoConfirmation
  /\ hybridConfirmation = NoConfirmation
  /\ exactConfirmation = NoConfirmation
  /\ promises = <<>>
  /\ voice \in {IdleVoice, [IdleVoice EXCEPT !.recognizer = "none"]}
  /\ engine = "VoiceService"
  /\ input = <<>>
  /\ result = NoResponse

VoiceBecomes(v) ==
  /\ voice' = v
  /\ UNCHANGED <<store, nextId, pendingConfirmation, pendingDisambiguation, smartConfirmation, hybridConfirmation, exactConfirmation, engine, promises, input, result>>

\* a call of startListening
StartListening(startAccepted) ==
  /\ engine = "VoiceService"
  /\ voice.calls < MaxSessions
  /\ startAccepted \/ voice.recognizer = "failed"
  /\ VoiceBecomes(startListening(voice, startAccepted))

\* a call of stopListening
StopListening ==
  /\ engine = "VoiceService"
  /\ VoiceBecomes(stopListening(voice))

\* recognition.onstart
OnStart ==
  /\ engine = "VoiceService"
  /\ voice.recognizer = "starting"
  /\ VoiceBecomes([voice EXCEPT !.recognizer = "running", !.isListening = TRUE])

\* recognition.onend: the recognizer has stopped, by stop() or by itself
OnEnd ==
  /\ engine = "VoiceService"
  /\ voice.recognizer \in {"running", "stopping", "failed"}
  /\ VoiceBecomes([voice EXCEPT !.recognizer = "idle", !.isListening = FALSE,
                                !.session = 0])

\* recognition.onerror; the end event follows
OnError ==
  /\ engine = "VoiceService"
  /\ voice.recognizer \in {"starting", "running", "stopping"}
  /\ VoiceBecomes([voice EXCEPT !.recognizer = "failed", !.isListening = FALSE])

NextVoice ==
  \/ \E startAccepted \in BOOLEAN : StartListening(startAccepted)
  \/ StopListening
  \/ OnStart
  \/ OnEnd
  \/ OnError

SpecVoice == InitVoice /\ [][NextVoice]_vars

\* isListening is true exactly between a start event and the next end or
\* error event
ListeningFollowsEvents ==
  /\ [](voice.isListening <=> voice.recognizer \in {"running", "stopping"})
  /\ [][/\ (~voice.isListening /\ voice'.isListening) => OnStart
        /\ (voice.isListening /\ ~voice'.isListening) => (OnEnd \/ OnError)]_vars

\* a call made while isListening is true starts nothing and returns false
NoSecondRecognition ==
  [][((\E a \in BOOLEAN : StartListening(a)) /\ voice.isListening)
     => /\ voice'.returned = "false"
        /\ voice'.recognizer # "starting"
        /\ voice'.session = voice.session]_vars

\* a call that returns false leaves the callbacks of the running session
CallbacksOfRunningSessionKept ==
  [][((\E a \in BOOLEAN : StartListening(a))
      /\ voice'.returned = "false" /\ voice.session # 0)
     => voice'.options = voice.options]_vars

\* C40: isListening is true exactly from the recognizer's start event until
\* its next end or error event; startListening called while isListening is
\* true starts no second recognition and returns false; and a startListening
\* call that returns false does not replace the callbacks of the session that
\* is running, also when it comes before the start event of the first call.
C40_ListeningStateMachine ==
  /\ ListeningFollowsEvents
  /\ NoSecondRecognition
  /\ CallbacksOfRunningSessionKept

====
